---- MODULE Spec2Model ----
(***************************************************************************)
(* A model of the Anthropic-to-Vercel-AI-Gateway proxy worker:             *)
(*   - the KeyManager (round-robin cursor, in-memory disabled set, KV       *)
(*     records, monthly reset),                                            *)
(*   - the fetch handler and handleMessagesWithRetry (credential failover), *)
(*   - the /health status query,                                           *)
(*   - handleStreamResponse (the SSE re-framer).                           *)
(*                                                                         *)
(* Three specifications share the variables:                               *)
(*   Spec         the worker: one /v1/messages request and one /health      *)
(*                query in flight, interleaved at their awaits, with the    *)
(*                clock advancing; the KV store answers every call.         *)
(*   SpecManager  one KeyManager object driven through its methods.         *)
(*   SpecStream   one streamed response rendered from an upstream event     *)
(*                sequence.                                                *)
(* Strings the code inspects (credentials, error texts) are sequences of    *)
(* one-character strings.  Times are whole UTC days counted from 1 January  *)
(* of a first, non-leap year (day 1), over two non-leap years.             *)
(***************************************************************************)
EXTENDS Integers, Sequences, FiniteSets, TLC

\* ------------------------------------------------------------------ bounds
\* Upstream events consumed by one streamed response.
MaxEvents == 4
\* Advances of the clock along Timeline.
MaxTicks == 4
\* Entries kept in the log of KeyManager method calls (SpecManager).
MaxCalls == 6
MaxSharedTicks == 2

\* ------------------------------------------------------------------ texts
None == "none"

Range(s) == {s[i] : i \in 1..Len(s)}
Last(s) == s[Len(s)]

\* String.prototype.toLowerCase, on the characters the model's texts use.
ToLowerChar(c) ==
  CASE c = "I" -> "i"
    [] c = "B" -> "b"
    [] c = "C" -> "c"
    [] OTHER -> c

ToLowerCase(s) == [i \in 1..Len(s) |-> ToLowerChar(s[i])]

\* String.prototype.includes.
Includes(s, kw) ==
  \E i \in 1..(Len(s) - Len(kw) + 1) : SubSeq(s, i, i + Len(kw) - 1) = kw

\* String.prototype.charCodeAt, on the characters the model's credentials use.
CharCode(c) ==
  CASE c = "1" -> 49
    [] c = "2" -> 50
    [] c = "3" -> 51
    [] c = "A" -> 65
    [] c = "B" -> 66
    [] c = "a" -> 97
    [] c = "k" -> 107
    [] OTHER -> 63

\* A 32-bit integer is kept as <<high half, low half>> of its two's-complement
\* bits, each half in 0..Half-1.
Half == 256 * 256

\* One turn of simpleHash's loop: hash = ((hash << 5) - hash) + char, then
\* hash & hash, i.e. 31 * hash + char wrapped to 32 bits.
HashStep(hash, char) ==
  LET low == hash[2] * 31 + char
  IN <<(hash[1] * 31 + (low \div Half)) % Half, low % Half>>

\* Math.abs of a 32-bit integer (the bits of 2^32 - u when the sign bit is set).
MathAbs(hash) ==
  IF hash[1] < Half \div 2 THEN hash
  ELSE << (Half - hash[1] - (IF hash[2] = 0 THEN 0 ELSE 1)) % Half,
          (Half - hash[2]) % Half >>

RECURSIVE HashFrom(_, _, _)
HashFrom(str, i, hash) ==
  IF i > Len(str) THEN hash
  ELSE HashFrom(str, i + 1, HashStep(hash, CharCode(str[i])))

\* KeyManager.simpleHash: Math.abs(hash) rendered in base 16; the rendering is
\* one-to-one, so the digest is kept as the number it renders.
simpleHash(str) == MathAbs(HashFrom(str, 1, <<0, 0>>))

\* KeyManager.getKVKey: the constant prefix "key_status_" before the digest.
getKVKey(apiKey) == simpleHash(apiKey)

\* ------------------------------------------------------------------ calendar
MonthLengths == <<31, 28, 31, 30, 31, 30, 31, 31, 30, 31, 30, 31>>
RECURSIVE DaysBeforeMonth(_)
DaysBeforeMonth(m) == IF m <= 1 THEN 0 ELSE DaysBeforeMonth(m - 1) + MonthLengths[m - 1]

DaysPerYear == DaysBeforeMonth(13)

\* Date.UTC with a monthIndex of 12 wrapping to January of the same year.
DateUTC_SameYear(year, monthIndex, day) ==
  year * DaysPerYear + DaysBeforeMonth((monthIndex % 12) + 1) + day

\* Date.UTC(year, monthIndex, day): monthIndex is 0-based and a monthIndex of
\* 12 rolls over into January of the next year.
DateUTC(year, monthIndex, day) ==
  (year + (monthIndex \div 12)) * DaysPerYear
    + DaysBeforeMonth((monthIndex % 12) + 1) + day

getUTCFullYear(t) == (t - 1) \div DaysPerYear
DayOfYear(t) == ((t - 1) % DaysPerYear) + 1
\* Date.prototype.getUTCMonth (0-based).
getUTCMonth(t) ==
  (CHOOSE m \in 1..12 :
     /\ DaysBeforeMonth(m) < DayOfYear(t)
     /\ DayOfYear(t) <= DaysBeforeMonth(m) + MonthLengths[m]) - 1
\* Date.prototype.getUTCDate.
getUTCDate(t) == DayOfYear(t) - DaysBeforeMonth(getUTCMonth(t) + 1)

\* The instants at which the worker is observed, in ascending order:
\* 20 Dec, 10 Jan, 15 Jan, 10 Feb, 15 Feb, 19 Feb, 15 Mar, 17 Mar.
Timeline == <<354, 375, 380, 406, 411, 415, 439, 441>>

\* ------------------------------------------------------------------ inputs
K1 == <<"k", "1">>
K2 == <<"k", "2">>
K3 == <<"k", "3">>
AllKeys == {K1, K2, K3}
\* Two credentials whose simpleHash is the same number (31 * 65 + 97 = 31 * 66 + 66).
KAa == <<"A", "a">>
KBB == <<"B", "B">>
CollidingKeys == {KAa, KBB}
\* env.VERCEL_AI_GATEWAY_KEYS after split(','), trim and filter.
Configs == {<<K1, K2>>, <<K1, K2, K3>>}

\* Worker instances: each has its own disabledKeysCache, all share KEY_STATUS.
Instances == {"X", "Y"}
\* A deployment served by one instance.
OneInstance == {"X"}

\* What an upstream call can fail with: the thrown error's message and type.
ErrorIds == {"credit", "billing", "model"}
ErrMessage(e) ==
  CASE e = "credit" -> <<"I","n","s","u","f","f","i","c","i","e","n","t"," ","c","r","e","d","i","t">>
    [] e = "model" -> <<"m","o","d","e","l"," ","n","o","t"," ","f","o","u","n","d">>
    [] e = "TypeError:model" ->
         <<"C","a","n","n","o","t"," ","r","e","a","d"," ","p","r","o","p","e","r","t","i","e","s",
           " ","o","f"," ","u","n","d","e","f","i","n","e","d">>
    [] e = "TypeError:messages" ->
         <<"m","e","s","s","a","g","e","s"," ","i","s"," ","n","o","t"," ",
           "i","t","e","r","a","b","l","e">>
    [] OTHER -> <<>>
ErrType(e) ==
  CASE e = "billing" -> <<"b","i","l","l","i","n","g">>
    [] OTHER -> <<>>
Outcomes == {"ok"} \cup ErrorIds

\* The required field a request body lacks, if any.
Missing == {"none", "model", "messages", "max_tokens"}

\* What handleMessages throws before it reaches the upstream call:
\* normalizeModelId(undefined) and convertMessagesToAISDK(undefined) raise a
\* TypeError; an absent max_tokens is passed on as it is.
ThrownBeforeCall(missing) ==
  CASE missing = "model" -> "TypeError:model"
    [] missing = "messages" -> "TypeError:messages"
    [] OTHER -> None

\* Texts no code inspects are kept whole, as one-element sequences.
MsgAllExhaustedReset == <<"All API keys have exhausted their quota. Keys will reset on the 15th of each month.">>
MsgAllExhausted == <<"All API keys have exhausted their quota.">>
MsgQuotaExhausted == <<"Quota exhausted">>
MsgInternal == <<"Internal server error">>

Or(a, b) == IF a # <<>> THEN a ELSE b

\* ------------------------------------------------------------------ state
VARIABLES
  keys,          \* KeyManager.keys: the configured credentials, in order
  currentIndex,  \* KeyManager.currentIndex of the manager last constructed
  cache,         \* disabledKeysCache of each worker instance
  kv,            \* env.KEY_STATUS: the record stored under each KV key
  clock,         \* position of the current instant in Timeline
  req,           \* the /v1/messages request in flight, or the last one answered
  hq,            \* the /health query in flight, or the last one answered
  prevStart,     \* cursor position the previous /v1/messages request started at
  resetSeen,     \* KV keys whose record a status query deleted, not disabled since
  calls          \* SpecManager: the first entries returned by getKeysToTry

keyVars == <<keys, currentIndex, cache, kv, clock, req, hq, prevStart, resetSeen, calls>>

now == Timeline[clock]

KVKeys == {getKVKey(k) : k \in AllKeys \cup CollidingKeys}

NoRecord == [disabledAt |-> 0, reason |-> <<>>, lastResetMonth |-> 0, expires |-> 0]

\* ------------------------------------------------------------------ KeyManager
ResetDay == 15
TtlDays == 35

\* shouldResetKeys with the reset starting a day late (day > 15).
shouldResetKeys_After15(t) ==
  [shouldReset |-> getUTCDate(t) > ResetDay, currentMonth |-> getUTCMonth(t) + 1]

\* KeyManager.shouldResetKeys
shouldResetKeys(t) ==
  [shouldReset |-> getUTCDate(t) >= ResetDay, currentMonth |-> getUTCMonth(t) + 1]

\* isKeyKnownDisabled answering false for every credential.
isKeyKnownDisabled_Never(disabled, apiKey) == FALSE

\* KeyManager.isKeyKnownDisabled
isKeyKnownDisabled(disabled, apiKey) == getKVKey(apiKey) \in disabled

\* KeyManager.markKeyDisabledInCache
markKeyDisabledInCache(disabled, apiKey) == disabled \cup {getKVKey(apiKey)}

quotaKeywords ==
  { <<"q","u","o","t","a">>,
    <<"i","n","s","u","f","f","i","c","i","e","n","t">>,
    <<"e","x","c","e","e","d","e","d">>,
    <<"l","i","m","i","t"," ","r","e","a","c","h","e","d">>,
    <<"b","i","l","l","i","n","g">>,
    <<"p","a","y","m","e","n","t"," ","r","e","q","u","i","r","e","d">>,
    <<"c","r","e","d","i","t">>,
    <<"b","a","l","a","n","c","e">>,
    <<"u","s","a","g","e"," ","l","i","m","i","t">>,
    <<"s","p","e","n","d","i","n","g"," ","l","i","m","i","t">> }

\* isQuotaError answering true for every error.
isQuotaError_Always(e) == TRUE

\* KeyManager.isQuotaError
isQuotaError(e) ==
  LET errorMessage == ToLowerCase(ErrMessage(e))
      errorType == ToLowerCase(ErrType(e))
  IN \E keyword \in quotaKeywords :
       Includes(errorMessage, keyword) \/ Includes(errorType, keyword)

RECURSIVE KeysFrom(_, _, _, _)
KeysFrom(ks, startIndex, i, disabled) ==
  IF i >= Len(ks) THEN <<>>
  ELSE LET key == ks[((startIndex + i) % Len(ks)) + 1]
       IN (IF isKeyKnownDisabled(disabled, key) THEN <<>> ELSE <<key>>)
            \o KeysFrom(ks, startIndex, i + 1, disabled)

\* getKeysToTry returning every configured credential, skipping none.
getKeysToTry_SkipNone(ks, index, disabled) == KeysFrom(ks, index, 0, {})

\* KeyManager.getKeysToTry: the list returned ...
getKeysToTry(ks, index, disabled) == KeysFrom(ks, index, 0, disabled)

\* The cursor left where it was.
AdvanceIndex_Stuck(ks, index) == index

\* ... and the cursor it leaves behind (also KeyManager.getNextKey's).
AdvanceIndex(ks, index) == (index + 1) % Len(ks)

\* The record with getUTCMonth()'s 0-based month stored as it comes.
KeyStatusRecord_ZeroBasedMonth(t, reason) ==
  [disabledAt |-> t, reason |-> reason, lastResetMonth |-> getUTCMonth(t), expires |-> 0]

\* The record disableKey builds before it awaits the put.
KeyStatusRecord(t, reason) ==
  [disabledAt |-> t, reason |-> reason,
   lastResetMonth |-> shouldResetKeys(t).currentMonth, expires |-> 0]

\* KEY_STATUS.put(kvKey, ..., {expirationTtl: 35 days}) completing at t.
KVPut(store, kvKey, record, t) ==
  [store EXCEPT ![kvKey] = [record EXCEPT !.expires = t + TtlDays]]

\* KEY_STATUS.delete(kvKey)
KVDelete(store, kvKey) == [store EXCEPT ![kvKey] = NoRecord]

\* KEY_STATUS.get(kvKey) at t: what the read can return.  A record is gone once
\* its expiry has passed; on the day of its expiry the read may fall on either
\* side of the expiry instant.
KVRead(store, kvKey, t) ==
  LET r == store[kvKey]
  IN IF r = NoRecord \/ t > r.expires THEN {NoRecord}
     ELSE IF t = r.expires THEN {r, NoRecord}
     ELSE {r}

\* getNextResetDate still answering the 15th of this month on the 15th.
getNextResetDate_OnThe15th(t) ==
  IF getUTCDate(t) <= ResetDay
    THEN DateUTC(getUTCFullYear(t), getUTCMonth(t), ResetDay)
    ELSE DateUTC(getUTCFullYear(t), getUTCMonth(t) + 1, ResetDay)

\* getNextResetDate, as the day on which the returned instant (00:00:00 UTC) falls.
getNextResetDate(t) ==
  IF getUTCDate(t) < ResetDay
    THEN DateUTC(getUTCFullYear(t), getUTCMonth(t), ResetDay)
    ELSE DateUTC(getUTCFullYear(t), getUTCMonth(t) + 1, ResetDay)

\* ------------------------------------------------------------------ responses
NoResponse ==
  [status |-> 0, type |-> "none", message |-> <<>>, nextReset |-> 0, key |-> <<>>]

\* handleNonStreamResponse's Response.json(response): the message rendered from
\* the upstream call made with apiKey.
MessageResponse(apiKey) ==
  [status |-> 200, type |-> "message", message |-> <<>>, nextReset |-> 0, key |-> apiKey]

\* handleStreamResponse's Response: the event stream is handed back before any
\* upstream event has been consumed.
StreamResponse(apiKey) ==
  [status |-> 200, type |-> "event-stream", message |-> <<>>, nextReset |-> 0, key |-> apiKey]

\* The quota_exhausted envelope of handleMessagesWithRetry, status 429.
QuotaExhaustedResponse(message, t) ==
  [status |-> 429, type |-> "quota_exhausted", message |-> message,
   nextReset |-> getNextResetDate(t), key |-> <<>>]

\* The caught error answered with the quota envelope's status.
ApiErrorResponse_Status429(e) ==
  [status |-> 429, type |-> "api_error", message |-> Or(ErrMessage(e), MsgInternal),
   nextReset |-> 0, key |-> <<>>]

\* fetch's catch: the api_error envelope, status 500.
ApiErrorResponse(e) ==
  [status |-> 500, type |-> "api_error", message |-> Or(ErrMessage(e), MsgInternal),
   nextReset |-> 0, key |-> <<>>]

\* One call on env.KEY_STATUS: get, put or delete under kvKey, and whether the
\* store answered it (ok) or threw.
KVCall(op, kvKey, ok) == [op |-> op, kvKey |-> kvKey, ok |-> ok]

\* markKeyDisabledInCache run by every instance at once, as if the set were shared.
MarkDisabledAt_AllInstances(c, inst, apiKey) ==
  [i \in DOMAIN c |-> markKeyDisabledInCache(c[i], apiKey)]

\* markKeyDisabledInCache run in instance inst: its module-level set alone.
MarkDisabledAt(c, inst, apiKey) ==
  [c EXCEPT ![inst] = markKeyDisabledInCache(@, apiKey)]

IdleReq ==
  [pc |-> "idle", inst |-> "X", stream |-> FALSE, missing |-> "none",
   keysToTry |-> <<>>, i |-> 0, kvCalls |-> <<>>,
   lastError |-> None, log |-> <<>>, pending |-> NoRecord, resp |-> NoResponse,
   startIndex |-> -1, time |-> 0]

IdleHq ==
  [pc |-> "idle", inst |-> "X", k |-> 0, disabled |-> 0, reported |-> <<>>,
   kvCalls |-> <<>>, seen |-> NoRecord, at |-> 0, total |-> 0, available |-> 0, nextReset |-> 0]

\* ------------------------------------------------------------------ /v1/messages
\* new KeyManager(env): currentIndex starts at 0.
NewManagerIndex == 0

\* fetch, POST /v1/messages: a KeyManager is constructed for the request, then
\* handleMessagesWithRetry runs to its first await.
FetchMessages(inst, stream, missing) ==
  /\ req.pc \in {"idle", "done"}
  /\ LET keysToTry == getKeysToTry(keys, NewManagerIndex, cache[inst])
     IN /\ currentIndex' = AdvanceIndex(keys, NewManagerIndex)
        /\ prevStart' = req.startIndex
        /\ req' = [IdleReq EXCEPT
                     !.inst = inst, !.stream = stream, !.missing = missing,
                     !.keysToTry = keysToTry,
                     !.startIndex = NewManagerIndex, !.time = now,
                     !.i = IF keysToTry = <<>> THEN 0 ELSE 1,
                     !.pc = IF keysToTry = <<>> THEN "done" ELSE "attempt",
                     !.resp = IF keysToTry = <<>>
                                THEN QuotaExhaustedResponse(MsgAllExhaustedReset, now)
                                ELSE NoResponse]
  /\ UNCHANGED <<keys, cache, kv, clock, hq, resetSeen, calls>>

\* The loop giving up after the first exhausted candidate.
NextCandidate_GivesUp(r, e, t) ==
  [r EXCEPT !.pc = "done", !.lastError = e, !.pending = NoRecord,
            !.resp = QuotaExhaustedResponse(Or(ErrMessage(e), MsgAllExhausted), t)]

\* The loop's continue: the next candidate, or the closing 429 once the list
\* is used up.
NextCandidate(r, e, t) ==
  IF r.i < Len(r.keysToTry)
    THEN [r EXCEPT !.pc = "attempt", !.i = r.i + 1, !.lastError = e, !.pending = NoRecord]
    ELSE [r EXCEPT !.pc = "done", !.lastError = e, !.pending = NoRecord,
                   !.resp = QuotaExhaustedResponse(Or(ErrMessage(e), MsgAllExhausted), t)]

\* One pass of the for loop: handleMessages(body, apiKey) settles with
\* `outcome`.  A streamed call hands its Response back at once: what the
\* upstream then does (outcome) reaches the client inside the stream only.
\* A single-shot call returns the message or throws the upstream's error.
\* A body without model or messages makes handleMessages throw before either.
Attempt(outcome) ==
  /\ req.pc = "attempt"
  /\ LET apiKey == req.keysToTry[req.i]
         logged == [req EXCEPT !.log = Append(req.log, [key |-> apiKey, outcome |-> outcome])]
         thrown == ThrownBeforeCall(req.missing)
     IN IF thrown # None
          THEN \* not a quota error: rethrown to fetch's catch, no call was made
               /\ ~isQuotaError(thrown)
               /\ req' = [req EXCEPT !.pc = "done", !.resp = ApiErrorResponse(thrown)]
               /\ UNCHANGED <<cache, resetSeen>>
        ELSE IF req.stream
          THEN /\ req' = [logged EXCEPT !.pc = "done", !.resp = StreamResponse(apiKey)]
               /\ UNCHANGED <<cache, resetSeen>>
        ELSE IF outcome = "ok"
          THEN /\ req' = [logged EXCEPT !.pc = "done", !.resp = MessageResponse(apiKey)]
               /\ UNCHANGED <<cache, resetSeen>>
        ELSE IF isQuotaError(outcome)
          THEN \* disableKey up to its await of KEY_STATUS.put
               /\ cache' = MarkDisabledAt(cache, req.inst, apiKey)
               /\ resetSeen' = resetSeen \ {getKVKey(apiKey)}
               /\ req' = [logged EXCEPT
                            !.pc = "put", !.lastError = outcome,
                            !.pending = KeyStatusRecord(now, Or(ErrMessage(outcome), MsgQuotaExhausted))]
          ELSE \* throw error: fetch's catch answers
               /\ req' = [logged EXCEPT !.pc = "done", !.resp = ApiErrorResponse(outcome)]
               /\ UNCHANGED <<cache, resetSeen>>
  /\ UNCHANGED <<keys, currentIndex, kv, clock, hq, prevStart, calls>>

\* disableKey without its try/catch: a put that throws reaches fetch's catch.
PutSettles_Raises(ok) ==
  /\ req.pc = "put"
  /\ LET kvKey == getKVKey(req.keysToTry[req.i])
         called == [req EXCEPT !.kvCalls = Append(@, KVCall("put", kvKey, ok))]
     IN /\ kv' = IF ok THEN KVPut(kv, kvKey, req.pending, now) ELSE kv
        /\ req' = IF ok THEN NextCandidate(called, req.lastError, now)
                   ELSE [called EXCEPT !.pc = "done", !.pending = NoRecord,
                                       !.resp = ApiErrorResponse("kv")]
  /\ UNCHANGED <<keys, currentIndex, cache, clock, hq, prevStart, resetSeen, calls>>

\* disableKey's KEY_STATUS.put settles (ok, or it throws and the catch logs
\* it), then the loop continues.
PutSettles(ok) ==
  /\ req.pc = "put"
  /\ LET kvKey == getKVKey(req.keysToTry[req.i])
     IN /\ kv' = IF ok THEN KVPut(kv, kvKey, req.pending, now) ELSE kv
        /\ req' = NextCandidate([req EXCEPT !.kvCalls = Append(@, KVCall("put", kvKey, ok))],
                                req.lastError, now)
  /\ UNCHANGED <<keys, currentIndex, cache, clock, hq, prevStart, resetSeen, calls>>

\* ------------------------------------------------------------------ /health
\* fetch, GET /health: a KeyManager is constructed and getStatus starts.
FetchHealth(inst) ==
  /\ hq.pc \in {"idle", "done"}
  /\ hq' = [IdleHq EXCEPT !.pc = "get", !.inst = inst, !.k = 1]
  /\ UNCHANGED <<keys, currentIndex, cache, kv, clock, req, prevStart, resetSeen, calls>>

\* getStatus after isKeyDisabledInKV has answered `isDisabled` for key k: the
\* next key, or the summary with getNextResetDate().
StatusNext(h, isDisabled, t) ==
  LET d == h.disabled + (IF isDisabled THEN 1 ELSE 0)
      rep == Append(h.reported, isDisabled)
  IN IF h.k < Len(keys)
       THEN [h EXCEPT !.pc = "get", !.k = h.k + 1, !.disabled = d, !.reported = rep]
       ELSE [h EXCEPT !.pc = "done", !.disabled = d, !.reported = rep,
                      !.total = Len(keys), !.available = Len(keys) - d,
                      !.nextReset = getNextResetDate(t)]

\* isKeyDisabledInKV whose catch treats a failed read as a disabled key.
StatusGet_FailsClosed(ok) ==
  /\ hq.pc = "get"
  /\ LET apiKey == keys[hq.k]
         kvKey == getKVKey(apiKey)
     IN \E status \in KVRead(kv, kvKey, now) :
          LET h == [hq EXCEPT !.seen = IF ok THEN status ELSE NoRecord, !.at = now,
                              !.kvCalls = Append(@, KVCall("get", kvKey, ok))]
              reset == shouldResetKeys(now)
          IN IF ok /\ status = NoRecord
               THEN /\ hq' = StatusNext(h, FALSE, now)
                    /\ UNCHANGED cache
             ELSE IF ok /\ reset.shouldReset /\ status.lastResetMonth # reset.currentMonth
               THEN /\ hq' = [h EXCEPT !.pc = "delete"]
                    /\ UNCHANGED cache
             ELSE /\ cache' = MarkDisabledAt(cache, hq.inst, apiKey)
                  /\ hq' = StatusNext(h, TRUE, now)
  /\ UNCHANGED <<keys, currentIndex, kv, clock, req, prevStart, resetSeen, calls>>

\* isKeyDisabledInKV from the settling of KEY_STATUS.get to its next await or
\* its return.  `ok` is whether the get answered; otherwise the catch returns false.
StatusGet(ok) ==
  /\ hq.pc = "get"
  /\ LET apiKey == keys[hq.k]
         kvKey == getKVKey(apiKey)
     IN \E status \in KVRead(kv, kvKey, now) :
          LET h == [hq EXCEPT !.seen = IF ok THEN status ELSE NoRecord, !.at = now,
                              !.kvCalls = Append(@, KVCall("get", kvKey, ok))]
              reset == shouldResetKeys(now)
          IN IF ~ok \/ status = NoRecord
               THEN /\ hq' = StatusNext(h, FALSE, now)
                    /\ UNCHANGED cache
             ELSE IF reset.shouldReset /\ status.lastResetMonth # reset.currentMonth
               THEN /\ hq' = [h EXCEPT !.pc = "delete"]
                    /\ UNCHANGED cache
             ELSE /\ cache' = MarkDisabledAt(cache, hq.inst, apiKey)
                  /\ hq' = StatusNext(h, TRUE, now)
  /\ UNCHANGED <<keys, currentIndex, kv, clock, req, prevStart, resetSeen, calls>>

\* isKeyDisabledInKV: KEY_STATUS.delete settles and false is returned.
StatusDelete(ok) ==
  /\ hq.pc = "delete"
  /\ LET kvKey == getKVKey(keys[hq.k])
     IN /\ kv' = IF ok THEN KVDelete(kv, kvKey) ELSE kv
        /\ resetSeen' = IF ok THEN resetSeen \cup {kvKey} ELSE resetSeen
        /\ hq' = StatusNext([hq EXCEPT !.kvCalls = Append(@, KVCall("delete", kvKey, ok))],
                            FALSE, now)
  /\ UNCHANGED <<keys, currentIndex, cache, clock, req, prevStart, calls>>

\* Time passes to the next instant of Timeline.  The instants are days apart
\* and a handler is answered within one of them.
TickUpTo(bound) ==
  /\ req.pc \in {"idle", "done"}
  /\ hq.pc \in {"idle", "done"}
  /\ clock <= bound
  /\ clock < Len(Timeline)
  /\ clock' = clock + 1
  /\ UNCHANGED <<keys, currentIndex, cache, kv, req, hq, prevStart, resetSeen, calls>>

Tick == TickUpTo(MaxTicks)

\* ------------------------------------------------------------------ stream re-framer
VARIABLES
  spc,                  \* where start(controller) is: "new", "iterating", "closed", "failed"
  consumed,             \* upstream parts taken from result.fullStream so far
  contentParts,         \* of these, the reasoning, text-delta and tool-call parts
  out,                  \* the SSE events enqueued so far
  contentBlockIndex,
  hasStartedTextBlock,
  hasThinkingBlock,
  hasAnyContent,
  streamError,          \* whether streamError holds an error
  lastPart,             \* `part`, the upstream part the loop took last
  cancelled             \* the client has cancelled the response stream

streamVars == <<spc, consumed, contentParts, out, contentBlockIndex,
                hasStartedTextBlock, hasThinkingBlock, hasAnyContent, streamError,
                lastPart, cancelled>>

NoUsage == -1

Part(type, text, finishReason, completionTokens) ==
  [type |-> type, text |-> text, finishReason |-> finishReason,
   completionTokens |-> completionTokens]

\* The parts result.fullStream can deliver.  text is what extractTextDelta
\* finds in the part; an error part carries its error's message.
Parts ==
  { Part("reasoning", "thought", "", NoUsage),
    Part("text-delta", "hello", "", NoUsage),
    Part("text-delta", "", "", NoUsage),
    Part("tool-call", "{}", "", NoUsage),
    Part("finish", "", "stop", 7),
    Part("finish", "", "tool-calls", NoUsage),
    Part("finish", "", "length", 7),
    Part("error", "boom", "", NoUsage),
    Part("step-start", "", "", NoUsage) }

ContentTypes == {"reasoning", "text-delta", "tool-call"}

\* What the iteration of result.fullStream can throw: an error with or
\* without a message.
Thrown == {"upstream reset", ""}

Event(event, index, kind, tokens, text) ==
  [event |-> event, index |-> index, kind |-> kind, tokens |-> tokens, text |-> text]

\* message_start: message.content is [], message.usage is
\* {input_tokens: 0, output_tokens: 0}.
MessageStart ==
  [event |-> "message_start", index |-> -1, kind |-> "message", tokens |-> 0, text |-> "",
   content |-> <<>>, inputTokens |-> 0]
BlockStart(index, kind) == Event("content_block_start", index, kind, 0, "")
BlockDelta(index, kind, text) == Event("content_block_delta", index, kind, 0, text)
BlockStop(index) == Event("content_block_stop", index, "", 0, "")
MessageDelta(stopReason, tokens) == Event("message_delta", -1, stopReason, tokens, "")
MessageStop == Event("message_stop", -1, "", 0, "")
ErrorEvent(message) == Event("error", -1, "api_error", 0, message)

OrText(a, b) == IF a # "" THEN a ELSE b

InitStream ==
  /\ spc = "new"
  /\ consumed = 0
  /\ contentParts = 0
  /\ out = <<>>
  /\ contentBlockIndex = 0
  /\ hasStartedTextBlock = FALSE
  /\ hasThinkingBlock = FALSE
  /\ hasAnyContent = FALSE
  /\ streamError = FALSE
  /\ lastPart = Part("none", "", "", NoUsage)
  /\ cancelled = FALSE

\* start(controller) entering the iteration with nothing sent.
StreamOpen_Silent ==
  /\ spc = "new"
  /\ spc' = "iterating"
  /\ UNCHANGED <<out, consumed, contentParts, contentBlockIndex, hasStartedTextBlock,
                 hasThinkingBlock, hasAnyContent, streamError, lastPart, cancelled>>

\* start(controller) up to the first await of the iteration: message_start.
StreamOpen ==
  /\ spc = "new"
  /\ spc' = "iterating"
  /\ out' = Append(out, MessageStart)
  /\ UNCHANGED <<consumed, contentParts, contentBlockIndex, hasStartedTextBlock,
                 hasThinkingBlock, hasAnyContent, streamError, lastPart, cancelled>>

\* case 'error'
OnError(part) ==
  /\ streamError' = TRUE
  /\ out' = Append(out, ErrorEvent(OrText(part.text, "Unknown stream error")))
  /\ UNCHANGED <<contentBlockIndex, hasStartedTextBlock, hasThinkingBlock, hasAnyContent>>

\* case 'reasoning'
OnReasoning(part) ==
  /\ hasAnyContent' = TRUE
  /\ hasThinkingBlock' = TRUE
  /\ out' = out
       \o (IF ~hasThinkingBlock THEN <<BlockStart(contentBlockIndex, "thinking")>> ELSE <<>>)
       \o (IF part.text # ""
             THEN <<BlockDelta(contentBlockIndex, "thinking_delta", part.text)>> ELSE <<>>)
  /\ UNCHANGED <<contentBlockIndex, hasStartedTextBlock, streamError>>

\* case 'text-delta'
OnTextDelta(part) ==
  LET closeThinking == hasThinkingBlock /\ ~hasStartedTextBlock
      index == IF closeThinking THEN contentBlockIndex + 1 ELSE contentBlockIndex
  IN /\ hasAnyContent' = TRUE
     /\ contentBlockIndex' = index
     /\ hasThinkingBlock' = IF closeThinking THEN FALSE ELSE hasThinkingBlock
     /\ hasStartedTextBlock' = TRUE
     /\ out' = out
          \o (IF closeThinking THEN <<BlockStop(contentBlockIndex)>> ELSE <<>>)
          \o (IF ~hasStartedTextBlock THEN <<BlockStart(index, "text")>> ELSE <<>>)
          \o (IF part.text # "" THEN <<BlockDelta(index, "text_delta", part.text)>> ELSE <<>>)
     /\ UNCHANGED streamError

\* case 'tool-call'
OnToolCall(part) ==
  LET closeOpen == hasStartedTextBlock \/ hasThinkingBlock
      index == IF closeOpen THEN contentBlockIndex + 1 ELSE contentBlockIndex
  IN /\ hasAnyContent' = TRUE
     /\ hasStartedTextBlock' = IF closeOpen THEN FALSE ELSE hasStartedTextBlock
     /\ hasThinkingBlock' = IF closeOpen THEN FALSE ELSE hasThinkingBlock
     /\ contentBlockIndex' = index + 1
     /\ out' = out
          \o (IF closeOpen THEN <<BlockStop(contentBlockIndex)>> ELSE <<>>)
          \o << BlockStart(index, "tool_use"),
                BlockDelta(index, "input_json_delta", part.text),
                BlockStop(index) >>
     /\ UNCHANGED streamError

\* The stop reason of the stream's message_delta.
StreamStopReason(finishReason) ==
  IF finishReason = "tool-calls" THEN "tool_use" ELSE "end_turn"

\* case 'finish': the message_delta, with usage.completionTokens || 0.
FinishDelta(finishReason, completionTokens) ==
  MessageDelta(StreamStopReason(finishReason),
               IF completionTokens = NoUsage THEN 0 ELSE completionTokens)

\* case 'finish' leaving the open block open.
OnFinish_NoClose(part) ==
  /\ hasAnyContent' = TRUE
  /\ out' = out
       \o <<FinishDelta(part.finishReason, part.completionTokens), MessageStop>>
  /\ UNCHANGED <<contentBlockIndex, hasStartedTextBlock, hasThinkingBlock, streamError>>

\* case 'finish'
OnFinish(part) ==
  /\ hasAnyContent' = TRUE
  /\ out' = out
       \o (IF hasStartedTextBlock \/ hasThinkingBlock
             THEN <<BlockStop(contentBlockIndex)>> ELSE <<>>)
       \o <<FinishDelta(part.finishReason, part.completionTokens), MessageStop>>
  /\ UNCHANGED <<contentBlockIndex, hasStartedTextBlock, hasThinkingBlock, streamError>>

\* case 'step-start', 'step-finish' and default
OnOther(part) ==
  UNCHANGED <<out, contentBlockIndex, hasStartedTextBlock, hasThinkingBlock,
              hasAnyContent, streamError>>

\* One turn of `for await (const part of result.fullStream)`.
OnPart(part) ==
  /\ spc = "iterating"
  /\ ~cancelled
  /\ consumed < MaxEvents
  /\ consumed' = consumed + 1
  /\ contentParts' = contentParts + (IF part.type \in ContentTypes THEN 1 ELSE 0)
  /\ lastPart' = part
  /\ CASE part.type = "error" -> OnError(part)
       [] part.type = "reasoning" -> OnReasoning(part)
       [] part.type = "text-delta" -> OnTextDelta(part)
       [] part.type = "tool-call" -> OnToolCall(part)
       [] part.type = "finish" -> OnFinish(part)
       [] OTHER -> OnOther(part)
  /\ UNCHANGED <<spc, cancelled>>

\* The placeholder block and closing events sent when nothing was rendered.
NoContentFallback ==
  << BlockStart(0, "text"),
     BlockDelta(0, "text_delta", "[Error: No response received from API]"),
     BlockStop(0),
     MessageDelta("end_turn", 0),
     MessageStop >>

\* result.fullStream ends: the check after the loop, then controller.close().
StreamEnds ==
  /\ spc = "iterating"
  /\ ~cancelled
  /\ out' = IF ~hasAnyContent /\ ~streamError THEN out \o NoContentFallback ELSE out
  /\ spc' = "closed"
  /\ UNCHANGED <<consumed, contentParts, contentBlockIndex, hasStartedTextBlock,
                 hasThinkingBlock, hasAnyContent, streamError, lastPart, cancelled>>

\* The iteration throws: the catch block, then controller.close().
StreamThrows(message) ==
  /\ spc = "iterating"
  /\ ~cancelled
  /\ out' = out
       \o <<ErrorEvent(OrText(message, "Stream processing error"))>>
       \o (IF hasStartedTextBlock \/ hasThinkingBlock
             THEN <<BlockStop(contentBlockIndex)>> ELSE <<>>)
       \o <<MessageDelta("error", 0), MessageStop>>
  /\ spc' = "closed"
  /\ UNCHANGED <<consumed, contentParts, contentBlockIndex, hasStartedTextBlock,
                 hasThinkingBlock, hasAnyContent, streamError, lastPart, cancelled>>

\* The client cancels the response body while start(controller) iterates.  The
\* ReadableStream is made with start only: nothing of the handler runs, and no
\* abortSignal was given to streamText.  From here controller.enqueue and
\* controller.close throw.
StreamCancel ==
  /\ spc = "iterating"
  /\ ~cancelled
  /\ cancelled' = TRUE
  /\ UNCHANGED <<spc, consumed, contentParts, out, contentBlockIndex, hasStartedTextBlock,
                 hasThinkingBlock, hasAnyContent, streamError, lastPart>>

\* The case of the part calls sendEvent.
Sends(part) ==
  CASE part.type = "error" -> TRUE
    [] part.type = "reasoning" -> ~hasThinkingBlock \/ part.text # ""
    [] part.type = "text-delta" -> hasThinkingBlock \/ ~hasStartedTextBlock \/ part.text # ""
    [] part.type = "tool-call" -> TRUE
    [] part.type = "finish" -> TRUE
    [] OTHER -> FALSE

\* One turn of the loop after the cancellation: the part is taken from
\* result.fullStream as before.  The first sendEvent of its case throws, the
\* catch block's sendEvent throws again and start(controller) rejects; a case
\* that sends nothing runs as before.
OnPartCancelled(part) ==
  /\ spc = "iterating"
  /\ cancelled
  /\ consumed < MaxEvents
  /\ consumed' = consumed + 1
  /\ contentParts' = contentParts + (IF part.type \in ContentTypes THEN 1 ELSE 0)
  /\ lastPart' = part
  /\ IF Sends(part)
       THEN /\ spc' = "failed"
            /\ hasAnyContent' = (hasAnyContent \/ part.type \in ContentTypes)
            /\ streamError' = (streamError \/ part.type = "error")
            /\ UNCHANGED <<out, contentBlockIndex, hasStartedTextBlock, hasThinkingBlock>>
       ELSE /\ CASE part.type = "reasoning" -> OnReasoning(part)
                 [] part.type = "text-delta" -> OnTextDelta(part)
                 [] OTHER -> OnOther(part)
            /\ UNCHANGED spc
  /\ UNCHANGED cancelled

\* result.fullStream ends, or its iteration throws, after the cancellation:
\* the fallback's or the catch block's sendEvent throws, or controller.close()
\* does, and start(controller) rejects.
EndsCancelled ==
  /\ spc = "iterating"
  /\ cancelled
  /\ spc' = "failed"
  /\ UNCHANGED <<consumed, contentParts, out, contentBlockIndex, hasStartedTextBlock,
                 hasThinkingBlock, hasAnyContent, streamError, lastPart, cancelled>>

\* ------------------------------------------------------------------ format converters
VARIABLES
  cpc,                  \* where handleMessages is: "converting", "converted", "rendered"
  messages,             \* body.messages, as far as the conversion loop has taken them
  result,               \* convertMessagesToAISDK's result so far
  generated,            \* what generateText resolved with
  response              \* the body handleNonStreamResponse answers with

convVars == <<cpc, messages, result, generated, response>>

MaxMessages == 2

\* Texts, as sequences of characters.
TxtHi == <<"h", "i">>
TxtQuote == <<"a", "\"">>
Texts == {<<>>, TxtHi, TxtQuote}

\* A value that is a string, a list of nested blocks, or undefined.
StringValue(text) == [kind |-> "string", text |-> text, blocks |-> <<>>]
BlocksValue(blocks) == [kind |-> "blocks", text |-> <<>>, blocks |-> blocks]
Undefined == [kind |-> "undefined", text |-> <<>>, blocks |-> <<>>]

NoSource == [media_type |-> <<>>, data |-> <<>>]
PngSource == [media_type |-> <<"i", "/", "p">>, data |-> <<"Z", "g">>]

\* A content block of an Anthropic message.
ContentBlock(type, text, cache_control, source, content, id) ==
  [type |-> type, text |-> text, cache_control |-> cache_control, source |-> source,
   content |-> content, id |-> id]

TextBlock(text, cache_control) == ContentBlock("text", text, cache_control, NoSource, Undefined, "")
ThinkingBlock(thinking) == ContentBlock("thinking", thinking, FALSE, NoSource, Undefined, "")
ImageBlock(source) == ContentBlock("image", <<>>, FALSE, source, Undefined, "")
DocumentBlock(source) == ContentBlock("document", <<>>, FALSE, source, Undefined, "")
ToolUseBlock(id) == ContentBlock("tool_use", <<>>, FALSE, NoSource, Undefined, id)
ToolResultBlock(id, content) == ContentBlock("tool_result", <<>>, FALSE, NoSource, content, id)
RedactedBlock == ContentBlock("redacted_thinking", <<>>, FALSE, NoSource, Undefined, "")

\* The nested blocks a tool_result can carry.
NestedText(text) == [type |-> <<"t", "e", "x", "t">>, text |-> text]

\* msg.content: a plain string or a list of blocks.
BlockLists ==
  { <<TextBlock(TxtHi, FALSE)>>,
    <<TextBlock(<<>>, FALSE)>>,
    <<TextBlock(TxtHi, TRUE)>>,
    <<ThinkingBlock(<<>>), RedactedBlock>>,
    <<ThinkingBlock(TxtHi), TextBlock(TxtQuote, FALSE)>>,
    <<ImageBlock(PngSource), ImageBlock(NoSource), DocumentBlock(PngSource)>>,
    <<TextBlock(TxtHi, FALSE), ToolUseBlock("t1")>>,
    <<ToolResultBlock("t1", StringValue(TxtQuote))>>,
    <<ToolResultBlock("t1", BlocksValue(<<NestedText(TxtQuote), NestedText(TxtHi)>>))>>,
    <<ToolResultBlock("t1", Undefined)>> }

Contents ==
  {StringValue(text) : text \in {TxtHi, <<>>}} \cup {BlocksValue(blocks) : blocks \in BlockLists}

AnthropicMessage(role, content) == [role |-> role, content |-> content]

\* The role is the one the content can come with: tool results and images
\* from the user, thinking and tool use from the assistant.
RolesOf(content) ==
  IF content.kind = "string" THEN {"user", "assistant"}
  ELSE LET types == {content.blocks[i].type : i \in 1..Len(content.blocks)}
       IN IF types \cap {"tool_result", "image", "document"} # {} THEN {"user"}
          ELSE IF types \cap {"thinking", "redacted_thinking", "tool_use"} # {} THEN {"assistant"}
          ELSE {"user", "assistant"}

AnthropicMessages ==
  UNION {{AnthropicMessage(role, content) : role \in RolesOf(content)} : content \in Contents}

\* JSON.stringify of a string: quoted, with " and \ escaped.
RECURSIVE JSONEscape(_)
JSONEscape(text) ==
  IF text = <<>> THEN <<>>
  ELSE (IF Head(text) \in {"\"", "\\"} THEN <<"\\", Head(text)>> ELSE <<Head(text)>>)
         \o JSONEscape(Tail(text))

JSONString(text) == <<"\"">> \o JSONEscape(text) \o <<"\"">>

\* JSON.stringify of a nested block {type, text}, keys in insertion order.
JSONObject(block) ==
  <<"{", "\"", "t", "y", "p", "e", "\"", ":">> \o JSONString(block.type)
    \o <<",", "\"", "t", "e", "x", "t", "\"", ":">> \o JSONString(block.text) \o <<"}">>

RECURSIVE JSONElements(_)
JSONElements(blocks) ==
  IF blocks = <<>> THEN <<>>
  ELSE JSONObject(Head(blocks))
         \o (IF Tail(blocks) = <<>> THEN <<>> ELSE <<",">>) \o JSONElements(Tail(blocks))

\* JSON.stringify(value); of undefined it is undefined.
JSONStringify(value) ==
  CASE value.kind = "string" -> StringValue(JSONString(value.text))
    [] value.kind = "blocks" -> StringValue(<<"[">> \o JSONElements(value.blocks) \o <<"]">>)
    [] OTHER -> Undefined

\* case 'tool_result' with every payload serialized.
ToolResultContent_AlwaysStringify(content) == JSONStringify(content)

\* case 'tool_result': resultContent.
ToolResultContent(content) ==
  IF content.kind = "string" THEN content ELSE JSONStringify(content)

\* A part of a converted message.
CorePart(type, text, providerOptions, mimeType, toolCallId, toolResult) ==
  [type |-> type, text |-> text, providerOptions |-> providerOptions, mimeType |-> mimeType,
   toolCallId |-> toolCallId, result |-> toolResult]

\* The parts one block contributes: one, or none.
ConvertBlock(block) ==
  CASE block.type = "text" ->
         <<CorePart("text", block.text, block.cache_control, <<>>, "", Undefined)>>
    [] block.type = "thinking" ->
         IF block.text # <<>>
           THEN <<CorePart("text", <<"<", "t", "h", "i", "n", "k", "i", "n", "g", ">">> \o block.text \o <<"<", "/", "t", "h", "i", "n", "k", "i", "n", "g", ">">>,
                           FALSE, <<>>, "", Undefined)>>
           ELSE <<>>
    [] block.type = "image" ->
         IF block.source # NoSource
           THEN <<CorePart("image",
                           <<"d", "a", "t", "a", ":">> \o block.source.media_type
                             \o <<";", "b", "a", "s", "e", "6", "4", ",">> \o block.source.data,
                           block.cache_control, <<>>, "", Undefined)>>
           ELSE <<>>
    [] block.type = "document" ->
         IF block.source # NoSource
           THEN <<CorePart("file", block.source.data, block.cache_control,
                           block.source.media_type, "", Undefined)>>
           ELSE <<>>
    [] block.type = "tool_use" -> <<CorePart("tool-call", <<>>, FALSE, <<>>, block.id, Undefined)>>
    [] block.type = "tool_result" ->
         <<CorePart("tool-result", <<>>, FALSE, <<>>, block.id, ToolResultContent(block.content))>>
    [] OTHER -> <<>>

RECURSIVE ConvertBlocks(_)
ConvertBlocks(blocks) ==
  IF blocks = <<>> THEN <<>> ELSE ConvertBlock(Head(blocks)) \o ConvertBlocks(Tail(blocks))

\* The content of a converted message: a string or a list of parts.
CoreString(text) == [kind |-> "string", text |-> text, parts |-> <<>>]
CoreParts(parts) == [kind |-> "parts", text |-> <<>>, parts |-> parts]
CoreMessage(role, content) == [role |-> role, content |-> content]

\* One turn of convertMessagesToAISDK's loop that never collapses a lone text part.
ConvertMessage_NoCollapse(msg, res) ==
  IF msg.content.kind = "string"
    THEN Append(res, CoreMessage(msg.role, CoreString(msg.content.text)))
    ELSE LET parts == ConvertBlocks(msg.content.blocks)
         IN IF Len(parts) > 0
              THEN Append(res, CoreMessage(msg.role, CoreParts(parts)))
              ELSE res

\* One turn of convertMessagesToAISDK's loop: msg converted and pushed onto res.
ConvertMessage(msg, res) ==
  IF msg.content.kind = "string"
    THEN Append(res, CoreMessage(msg.role, CoreString(msg.content.text)))
    ELSE LET parts == ConvertBlocks(msg.content.blocks)
         IN IF Len(parts) = 1 /\ parts[1].type = "text" /\ ~parts[1].providerOptions
              THEN Append(res, CoreMessage(msg.role, CoreString(parts[1].text)))
            ELSE IF Len(parts) > 0
              THEN Append(res, CoreMessage(msg.role, CoreParts(parts)))
            ELSE res

RECURSIVE convertMessagesToAISDK(_)
convertMessagesToAISDK(msgs) ==
  IF msgs = <<>> THEN <<>>
  ELSE ConvertMessage(Last(msgs), convertMessagesToAISDK(SubSeq(msgs, 1, Len(msgs) - 1)))

\* What generateText resolves with, as far as handleNonStreamResponse reads it.
NoUsageReported == [present |-> FALSE, promptTokens |-> 0, completionTokens |-> 0]
UsageReported(promptTokens, completionTokens) ==
  [present |-> TRUE, promptTokens |-> promptTokens, completionTokens |-> completionTokens]

ToolCall(toolCallId, toolName) == [toolCallId |-> toolCallId, toolName |-> toolName]

\* providerMetadata.anthropic: absent, or present with each count a number or
\* undefined.
Absent == -1
NoMetadata == [present |-> FALSE, cacheCreationInputTokens |-> Absent,
               cacheReadInputTokens |-> Absent]
AnthropicMetadata(cacheCreationInputTokens, cacheReadInputTokens) ==
  [present |-> TRUE, cacheCreationInputTokens |-> cacheCreationInputTokens,
   cacheReadInputTokens |-> cacheReadInputTokens]

\* result.usage with result.providerMetadata.
Accounts ==
  { <<NoUsageReported, NoMetadata>>,
    <<UsageReported(3, 7), NoMetadata>>,
    <<UsageReported(3, 7), AnthropicMetadata(2, Absent)>> }

GenerateResult(reasoning, reasoningText, text, toolCalls, account, finishReason) ==
  [reasoning |-> reasoning, reasoningText |-> reasoningText, text |-> text,
   toolCalls |-> toolCalls, usage |-> account[1], anthropicMetadata |-> account[2],
   finishReason |-> finishReason]

NoResult == GenerateResult(<<>>, <<>>, <<>>, <<>>, <<NoUsageReported, NoMetadata>>, "")

\* With tool calls the upstream finishes with tool-calls; without, with a
\* natural stop or at the length limit.  The last two sets: the length limit
\* reached after a complete tool call, and a finish reason other than the three.
GenerateResults ==
  { GenerateResult(reasoning[1], reasoning[2], text, toolCalls, account, finishReason) :
      reasoning \in {<<<<>>, <<>>>>, <<TxtHi, <<>>>>, <<<<>>, TxtQuote>>},
      text \in {<<>>, TxtHi},
      toolCalls \in {<<>>},
      account \in Accounts,
      finishReason \in {"stop", "length"} }
  \cup
  { GenerateResult(reasoning[1], reasoning[2], text, toolCalls, account, "tool-calls") :
      reasoning \in {<<<<>>, <<>>>>, <<TxtHi, <<>>>>, <<<<>>, TxtQuote>>},
      text \in {<<>>, TxtHi},
      toolCalls \in {<<ToolCall("t2", "search"), ToolCall("t1", "fetch")>>},
      account \in Accounts }
  \cup
  { GenerateResult(<<>>, <<>>, text, <<ToolCall("t2", "search"), ToolCall("t1", "fetch")>>,
                   <<UsageReported(3, 7), NoMetadata>>, "length") :
      text \in {<<>>, TxtHi} }
  \cup
  { GenerateResult(<<>>, <<>>, text, <<>>, account, "content-filter") :
      text \in {TxtHi}, account \in {<<NoUsageReported, NoMetadata>>, <<UsageReported(3, 7), NoMetadata>>} }

\* A content block of the response.
ResponseBlock(type, text, id, name) == [type |-> type, text |-> text, id |-> id, name |-> name]

\* usage.cache_creation_input_tokens and usage.cache_read_input_tokens are
\* Absent when the field is not set.
ResponseBody(content, stop_reason, input_tokens, output_tokens, cache_creation, cache_read) ==
  [type |-> "message", role |-> "assistant", content |-> content, stop_reason |-> stop_reason,
   usage |-> [input_tokens |-> input_tokens, output_tokens |-> output_tokens,
              cache_creation_input_tokens |-> cache_creation,
              cache_read_input_tokens |-> cache_read]]

NoBody ==
  [type |-> "none", role |-> "", content |-> <<>>, stop_reason |-> "",
   usage |-> [input_tokens |-> 0, output_tokens |-> 0,
              cache_creation_input_tokens |-> Absent, cache_read_input_tokens |-> Absent]]

\* handleNonStreamResponse's content with the text block put first.
ResponseContent_TextFirst(r) ==
  LET thinkingContent == IF r.reasoning # <<>> THEN r.reasoning ELSE r.reasoningText
  IN (IF r.text # <<>> THEN <<ResponseBlock("text", r.text, "", "")>> ELSE <<>>)
       \o (IF thinkingContent # <<>>
             THEN <<ResponseBlock("thinking", thinkingContent, "", "")>> ELSE <<>>)
       \o [i \in 1..Len(r.toolCalls) |->
             ResponseBlock("tool_use", <<>>, r.toolCalls[i].toolCallId, r.toolCalls[i].toolName)]

\* handleNonStreamResponse: the content list.
ResponseContent(r) ==
  LET thinkingContent == IF r.reasoning # <<>> THEN r.reasoning ELSE r.reasoningText
  IN (IF thinkingContent # <<>>
        THEN <<ResponseBlock("thinking", thinkingContent, "", "")>> ELSE <<>>)
       \o (IF r.text # <<>> THEN <<ResponseBlock("text", r.text, "", "")>> ELSE <<>>)
       \o [i \in 1..Len(r.toolCalls) |->
             ResponseBlock("tool_use", <<>>, r.toolCalls[i].toolCallId, r.toolCalls[i].toolName)]

\* handleNonStreamResponse: the response body.
handleNonStreamResponse(r) ==
  ResponseBody(ResponseContent(r),
               IF Len(r.toolCalls) > 0 THEN "tool_use" ELSE "end_turn",
               IF r.usage.present THEN r.usage.promptTokens ELSE 0,
               IF r.usage.present THEN r.usage.completionTokens ELSE 0,
               IF r.anthropicMetadata.present
                 THEN r.anthropicMetadata.cacheCreationInputTokens ELSE Absent,
               IF r.anthropicMetadata.present
                 THEN r.anthropicMetadata.cacheReadInputTokens ELSE Absent)

InitConv ==
  /\ cpc = "converting"
  /\ messages = <<>>
  /\ result = <<>>
  /\ generated = NoResult
  /\ response = NoBody

\* One turn of `for (const msg of messages)` in convertMessagesToAISDK.
ConvertNext(msg) ==
  /\ cpc = "converting"
  /\ Len(messages) < MaxMessages
  /\ messages' = Append(messages, msg)
  /\ result' = ConvertMessage(msg, result)
  /\ UNCHANGED <<cpc, generated, response>>

\* The loop ends and convertMessagesToAISDK returns result.
ConvertReturns ==
  /\ cpc = "converting"
  /\ cpc' = "converted"
  /\ UNCHANGED <<messages, result, generated, response>>

\* handleNonStreamResponse: generateText resolves with r and the body is built.
Render(r) ==
  /\ cpc = "converted"
  /\ cpc' = "rendered"
  /\ generated' = r
  /\ response' = handleNonStreamResponse(r)
  /\ UNCHANGED <<messages, result>>

\* ------------------------------------------------------------------ request options
VARIABLES
  opc,                  \* where handleMessages is: "new", "built" (commonOptions complete)
  body,                 \* the request body, as far as the option building reads it
  commonOptions         \* what handleMessages hands to streamText / generateText

optVars == <<opc, body, commonOptions>>

\* body.tool_choice: absent, a string, or an object with a type and a name.
NoToolChoice == [kind |-> "undefined", value |-> "", name |-> ""]
ChoiceString(value) == [kind |-> "string", value |-> value, name |-> ""]
ChoiceObject(type, name) == [kind |-> "object", value |-> type, name |-> name]

\* The declared directives 'auto', 'none', {type: 'any'}, {type: 'tool', name},
\* and values outside the declared type.
ToolChoices ==
  { ChoiceString("auto"), ChoiceString("none"),
    ChoiceObject("any", ""), ChoiceObject("tool", "search"),
    ChoiceString("any"), ChoiceString("required"),
    ChoiceObject("auto", ""), ChoiceObject("none", ""), ChoiceObject("function", "search") }

\* commonOptions.toolChoice: 'auto', 'none', 'required' or {type: 'tool', toolName}.
SdkChoice(type, toolName) == [type |-> type, toolName |-> toolName]
NoSdkChoice == SdkChoice("undefined", "")

\* convertToolChoice falling back to 'none'.
convertToolChoice_FailClosed(toolChoice) ==
  IF toolChoice = ChoiceString("auto") THEN SdkChoice("auto", "")
  ELSE IF toolChoice.kind = "object" /\ toolChoice.value = "any" THEN SdkChoice("required", "")
  ELSE IF toolChoice.kind = "object" /\ toolChoice.value = "tool"
    THEN SdkChoice("tool", toolChoice.name)
  ELSE SdkChoice("none", "")

\* convertToolChoice
convertToolChoice(toolChoice) ==
  IF toolChoice = ChoiceString("auto") THEN SdkChoice("auto", "")
  ELSE IF toolChoice = ChoiceString("none") THEN SdkChoice("none", "")
  ELSE IF toolChoice.kind = "object" /\ toolChoice.value = "any" THEN SdkChoice("required", "")
  ELSE IF toolChoice.kind = "object" /\ toolChoice.value = "tool"
    THEN SdkChoice("tool", toolChoice.name)
  ELSE SdkChoice("auto", "")

\* body.system: a string, or a list of segments with a text and maybe a cache hint.
SystemBlock(text, cache_control) == [text |-> text, cache_control |-> cache_control]
Systems ==
  { Undefined, StringValue(<<>>), StringValue(TxtHi),
    BlocksValue(<<>>),
    BlocksValue(<<SystemBlock(TxtHi, FALSE)>>),
    BlocksValue(<<SystemBlock(TxtHi, FALSE), SystemBlock(TxtQuote, FALSE)>>),
    BlocksValue(<<SystemBlock(TxtHi, TRUE), SystemBlock(TxtQuote, FALSE)>>),
    BlocksValue(<<SystemBlock(TxtQuote, FALSE), SystemBlock(TxtHi, TRUE)>>) }

\* A text part of the system content; cacheControl is whether
\* providerOptions.anthropic.cacheControl is set.
SystemPart(text, cacheControl) == [type |-> "text", text |-> text, cacheControl |-> cacheControl]

\* buildSystemContent.  An empty string is falsy: undefined.
buildSystemContent(system) ==
  IF system.kind = "undefined" \/ (system.kind = "string" /\ system.text = <<>>)
    THEN Undefined
  ELSE IF system.kind = "string" THEN system
  ELSE BlocksValue([i \in 1..Len(system.blocks) |->
                      SystemPart(system.blocks[i].text, system.blocks[i].cache_control)])

\* body.thinking: absent, or a type with a budget_tokens that may be absent.
Thinking(type, budget_tokens) == [type |-> type, budget_tokens |-> budget_tokens]
NoThinking == Thinking("undefined", Absent)
Budgets == {0, 1024, 10000, 32000}
Thinkings ==
  {NoThinking} \cup
  {Thinking(type, budget) : type \in {"enabled", "disabled"}, budget \in Budgets \cup {Absent}}

DefaultBudget == 10000

\* anthropicOptions.thinking: absent, or enabled with budgetTokens.
SdkThinking(enabled, budgetTokens) == [enabled |-> enabled, budgetTokens |-> budgetTokens]

\* handleMessages' thinking option with the default budget whatever the request carries.
ThinkingOption_AlwaysDefault(thinking) ==
  IF thinking.type = "enabled"
    THEN SdkThinking(TRUE, DefaultBudget)
    ELSE SdkThinking(FALSE, Absent)

\* handleMessages: body.thinking.budget_tokens || 10000 when thinking is enabled.
ThinkingOption(thinking) ==
  IF thinking.type = "enabled"
    THEN SdkThinking(TRUE, IF thinking.budget_tokens \in {Absent, 0}
                             THEN DefaultBudget ELSE thinking.budget_tokens)
    ELSE SdkThinking(FALSE, Absent)

Body(system, thinking, hasTools, tool_choice) ==
  [system |-> system, thinking |-> thinking, hasTools |-> hasTools, tool_choice |-> tool_choice]

Bodies ==
  { Body(system, thinking, hasTools, tool_choice) :
      system \in Systems, thinking \in Thinkings, hasTools \in BOOLEAN,
      tool_choice \in ToolChoices \cup {NoToolChoice} }

Options(system, thinking, toolChoice) ==
  [system |-> system, thinking |-> thinking, toolChoice |-> toolChoice]

InitOptions ==
  /\ opc = "new"
  /\ body = Body(Undefined, NoThinking, FALSE, NoToolChoice)
  /\ commonOptions = Options(Undefined, SdkThinking(FALSE, Absent), NoSdkChoice)

\* handleMessages from its entry to the complete commonOptions, for body b.
BuildOptions(b) ==
  /\ opc = "new"
  /\ opc' = "built"
  /\ body' = b
  /\ commonOptions' =
       Options(buildSystemContent(b.system),
               ThinkingOption(b.thinking),
               IF b.hasTools /\ b.tool_choice # NoToolChoice
                 THEN convertToolChoice(b.tool_choice) ELSE NoSdkChoice)

\* ------------------------------------------------------------------ src/index.ts: handleStreamingResponse
VARIABLES
  rpc,                  \* where start(controller) is: "new", "iterating", "closed"
  taken,                \* events taken from result.fullStream so far
  sent,                 \* the SSE events enqueued so far
  contentIndex,
  thinkingStarted,
  textStarted,
  toolCallsMap,         \* the entries [id, index] in insertion order
  finalUsage,           \* finalUsage.output_tokens
  stopReason,
  lastEvent             \* `event`, the upstream event the loop took last

rendVars == <<rpc, taken, sent, contentIndex, thinkingStarted, textStarted, toolCallsMap,
              finalUsage, stopReason, lastEvent>>

vars == <<keyVars, streamVars, convVars, optVars, rendVars>>

MaxChunks == 4

Chunk(type, text, toolCallId, toolName, finishReason, completionTokens) ==
  [type |-> type, text |-> text, toolCallId |-> toolCallId, toolName |-> toolName,
   finishReason |-> finishReason, completionTokens |-> completionTokens]

NoChunk == Chunk("none", "", "", "", "", NoUsage)

\* The events result.fullStream can deliver to the switch.  text is textDelta,
\* JSON.stringify(args), argsTextDelta or String(error).
Chunks ==
  { Chunk("reasoning", "thought", "", "", "", NoUsage),
    Chunk("reasoning-signature", "", "", "", "", NoUsage),
    Chunk("text-delta", "hello", "", "", "", NoUsage),
    Chunk("tool-call", "{}", "t1", "search", "", NoUsage),
    Chunk("tool-call-streaming-start", "", "t1", "search", "", NoUsage),
    Chunk("tool-call-streaming-start", "", "t2", "fetch", "", NoUsage),
    Chunk("tool-call-delta", "{", "t1", "search", "", NoUsage),
    Chunk("tool-call-delta", "{", "t2", "fetch", "", NoUsage),
    Chunk("finish", "", "", "", "tool-calls", 7),
    Chunk("finish", "", "", "", "stop", NoUsage),
    Chunk("error", "boom", "", "", "", NoUsage) }

\* content_block_start of a tool_use block: content_block.id and .name.
ToolUseStart(index, id, name) ==
  [event |-> "content_block_start", index |-> index, kind |-> "tool_use", tokens |-> 0,
   text |-> "", id |-> id, name |-> name]

\* toolCallsMap.has / .get / .set
MapHas(map, id) == \E n \in 1..Len(map) : map[n].id = id
MapGet(map, id) == map[CHOOSE n \in 1..Len(map) : map[n].id = id]
MapSet(map, id, index) ==
  IF MapHas(map, id)
    THEN [n \in 1..Len(map) |-> IF map[n].id = id THEN [id |-> id, index |-> index] ELSE map[n]]
    ELSE Append(map, [id |-> id, index |-> index])

InitStreaming ==
  /\ rpc = "new"
  /\ taken = 0
  /\ sent = <<>>
  /\ contentIndex = 0
  /\ thinkingStarted = FALSE
  /\ textStarted = FALSE
  /\ toolCallsMap = <<>>
  /\ finalUsage = 0
  /\ stopReason = "end_turn"
  /\ lastEvent = NoChunk

\* start(controller) up to the first await of the iteration: message_start.
StreamingOpen ==
  /\ rpc = "new"
  /\ rpc' = "iterating"
  /\ sent' = Append(sent, MessageStart)
  /\ UNCHANGED <<taken, contentIndex, thinkingStarted, textStarted, toolCallsMap,
                 finalUsage, stopReason, lastEvent>>

\* case 'reasoning', 'reasoning-delta'
CaseReasoning(e) ==
  /\ thinkingStarted' = TRUE
  /\ sent' = sent
       \o (IF ~thinkingStarted THEN <<BlockStart(contentIndex, "thinking")>> ELSE <<>>)
       \o (IF e.text # "" THEN <<BlockDelta(contentIndex, "thinking_delta", e.text)>> ELSE <<>>)
  /\ UNCHANGED <<contentIndex, textStarted, toolCallsMap, finalUsage, stopReason>>

\* case 'reasoning-signature'
CaseReasoningSignature(e) ==
  /\ thinkingStarted' = FALSE
  /\ contentIndex' = IF thinkingStarted THEN contentIndex + 1 ELSE contentIndex
  /\ sent' = sent \o (IF thinkingStarted THEN <<BlockStop(contentIndex)>> ELSE <<>>)
  /\ UNCHANGED <<textStarted, toolCallsMap, finalUsage, stopReason>>

\* case 'text-delta'
CaseTextDelta(e) ==
  LET index == IF thinkingStarted THEN contentIndex + 1 ELSE contentIndex
  IN /\ contentIndex' = index
     /\ thinkingStarted' = FALSE
     /\ textStarted' = TRUE
     /\ sent' = sent
          \o (IF thinkingStarted THEN <<BlockStop(contentIndex)>> ELSE <<>>)
          \o (IF ~textStarted THEN <<BlockStart(index, "text")>> ELSE <<>>)
          \o (IF e.text # "" THEN <<BlockDelta(index, "text_delta", e.text)>> ELSE <<>>)
     /\ UNCHANGED <<toolCallsMap, finalUsage, stopReason>>

\* case 'tool-call'
CaseToolCall(e) ==
  LET index == IF textStarted THEN contentIndex + 1 ELSE contentIndex
  IN /\ textStarted' = FALSE
     /\ contentIndex' = index + 1
     /\ stopReason' = "tool_use"
     /\ sent' = sent
          \o (IF textStarted THEN <<BlockStop(contentIndex)>> ELSE <<>>)
          \o << ToolUseStart(index, e.toolCallId, e.toolName),
                BlockDelta(index, "input_json_delta", e.text),
                BlockStop(index) >>
     /\ UNCHANGED <<thinkingStarted, toolCallsMap, finalUsage>>

\* case 'tool-call-streaming-start'
CaseToolCallStreamingStart(e) ==
  LET index == IF textStarted THEN contentIndex + 1 ELSE contentIndex
  IN /\ textStarted' = FALSE
     /\ contentIndex' = index
     /\ toolCallsMap' = MapSet(toolCallsMap, e.toolCallId, index)
     /\ sent' = sent
          \o (IF textStarted THEN <<BlockStop(contentIndex)>> ELSE <<>>)
          \o <<ToolUseStart(index, e.toolCallId, e.toolName)>>
     /\ UNCHANGED <<thinkingStarted, finalUsage, stopReason>>

\* case 'tool-call-delta'
CaseToolCallDelta(e) ==
  /\ sent' = sent
       \o (IF MapHas(toolCallsMap, e.toolCallId)
             THEN <<BlockDelta(MapGet(toolCallsMap, e.toolCallId).index, "input_json_delta", e.text)>>
             ELSE <<>>)
  /\ UNCHANGED <<contentIndex, thinkingStarted, textStarted, toolCallsMap, finalUsage, stopReason>>

\* case 'finish'
CaseFinish(e) ==
  /\ sent' = sent
       \o (IF textStarted THEN <<BlockStop(contentIndex)>> ELSE <<>>)
       \o [n \in 1..Len(toolCallsMap) |-> BlockStop(toolCallsMap[n].index)]
  /\ stopReason' = CASE e.finishReason = "tool-calls" -> "tool_use"
                     [] e.finishReason = "length" -> "max_tokens"
                     [] OTHER -> stopReason
  /\ finalUsage' = IF e.completionTokens = NoUsage THEN 0 ELSE e.completionTokens
  /\ UNCHANGED <<contentIndex, thinkingStarted, textStarted, toolCallsMap>>

\* case 'error'
CaseError(e) ==
  /\ sent' = Append(sent, ErrorEvent(e.text))
  /\ UNCHANGED <<contentIndex, thinkingStarted, textStarted, toolCallsMap, finalUsage, stopReason>>

\* One turn of `for await (const event of result.fullStream)`.
OnEvent(e) ==
  /\ rpc = "iterating"
  /\ taken < MaxChunks
  /\ taken' = taken + 1
  /\ lastEvent' = e
  /\ CASE e.type = "reasoning" -> CaseReasoning(e)
       [] e.type = "reasoning-signature" -> CaseReasoningSignature(e)
       [] e.type = "text-delta" -> CaseTextDelta(e)
       [] e.type = "tool-call" -> CaseToolCall(e)
       [] e.type = "tool-call-streaming-start" -> CaseToolCallStreamingStart(e)
       [] e.type = "tool-call-delta" -> CaseToolCallDelta(e)
       [] e.type = "finish" -> CaseFinish(e)
       [] OTHER -> CaseError(e)
  /\ UNCHANGED rpc

\* result.fullStream ends: message_delta, message_stop, then controller.close().
StreamingEnds ==
  /\ rpc = "iterating"
  /\ sent' = sent \o <<MessageDelta(stopReason, finalUsage), MessageStop>>
  /\ rpc' = "closed"
  /\ UNCHANGED <<taken, contentIndex, thinkingStarted, textStarted, toolCallsMap,
                 finalUsage, stopReason, lastEvent>>

\* String(error) of what the iteration throws.
StringOfError(message) ==
  IF message = "" THEN "Error" ELSE "Error: upstream reset"

\* The iteration throws: the catch block's error event, then controller.close().
StreamingThrows(message) ==
  /\ rpc = "iterating"
  /\ sent' = Append(sent, ErrorEvent(StringOfError(message)))
  /\ rpc' = "closed"
  /\ UNCHANGED <<taken, contentIndex, thinkingStarted, textStarted, toolCallsMap,
                 finalUsage, stopReason, lastEvent>>

\* ------------------------------------------------------------------ KeyManager as an object
Call(op, returned, disabled) == [op |-> op, result |-> returned, disabled |-> disabled]

\* keyManager.getKeysToTry()
MgrGetKeysToTry ==
  /\ Len(calls) < MaxCalls
  /\ calls' = Append(calls, Call("getKeysToTry",
                                 getKeysToTry(keys, currentIndex, cache["X"]), cache["X"]))
  /\ currentIndex' = AdvanceIndex(keys, currentIndex)
  /\ UNCHANGED <<keys, cache, kv, clock, req, hq, prevStart, resetSeen>>

\* keyManager.getNextKey()
MgrGetNextKey ==
  /\ Len(calls) < MaxCalls
  /\ calls' = Append(calls, Call("getNextKey", <<keys[currentIndex + 1]>>, cache["X"]))
  /\ currentIndex' = AdvanceIndex(keys, currentIndex)
  /\ UNCHANGED <<keys, cache, kv, clock, req, hq, prevStart, resetSeen>>

\* keyManager.disableKey(apiKey, reason), whole: the cache, then the put.
MgrDisableKey(apiKey, ok) ==
  /\ apiKey \in Range(keys)
  /\ cache' = MarkDisabledAt(cache, "X", apiKey)
  /\ kv' = IF ok THEN KVPut(kv, getKVKey(apiKey), KeyStatusRecord(now, MsgQuotaExhausted), now)
                 ELSE kv
  /\ UNCHANGED <<keys, currentIndex, clock, req, hq, prevStart, resetSeen, calls>>

\* ------------------------------------------------------------------ specifications
InitKeysIn(configs) ==
  /\ keys \in configs
  /\ currentIndex = NewManagerIndex
  /\ cache = [inst \in Instances |-> {}]
  /\ kv = [kvKey \in KVKeys |-> NoRecord]
  /\ clock = 1
  /\ req = IdleReq
  /\ hq = IdleHq
  /\ prevStart = -1
  /\ resetSeen = {}
  /\ calls = <<>>

InitKeys == InitKeysIn(Configs)

Init == InitKeys /\ InitStream /\ InitConv /\ InitOptions /\ InitStreaming

\* The worker with a KV store that answers every call, sent bodies that carry
\* every required field.
Next ==
  \/ \E inst \in OneInstance, stream \in BOOLEAN :
       FetchMessages(inst, stream, "none") /\ UNCHANGED <<streamVars, convVars, optVars, rendVars>>
  \/ \E outcome \in Outcomes : Attempt(outcome) /\ UNCHANGED <<streamVars, convVars, optVars, rendVars>>
  \/ PutSettles(TRUE) /\ UNCHANGED <<streamVars, convVars, optVars, rendVars>>
  \/ \E inst \in OneInstance : FetchHealth(inst) /\ UNCHANGED <<streamVars, convVars, optVars, rendVars>>
  \/ StatusGet(TRUE) /\ UNCHANGED <<streamVars, convVars, optVars, rendVars>>
  \/ StatusDelete(TRUE) /\ UNCHANGED <<streamVars, convVars, optVars, rendVars>>
  \/ Tick /\ UNCHANGED <<streamVars, convVars, optVars, rendVars>>

Spec == Init /\ [][Next]_vars

\* The worker's /v1/messages route sent any body, well-formed or lacking a
\* required field.
NextBodies ==
  \/ \E inst \in OneInstance, stream \in BOOLEAN, missing \in Missing :
       FetchMessages(inst, stream, missing) /\ UNCHANGED <<streamVars, convVars, optVars, rendVars>>
  \/ \E outcome \in Outcomes : Attempt(outcome) /\ UNCHANGED <<streamVars, convVars, optVars, rendVars>>
  \/ PutSettles(TRUE) /\ UNCHANGED <<streamVars, convVars, optVars, rendVars>>

SpecBodies == Init /\ [][NextBodies]_vars

\* The same, with every await of the loop settling: the upstream call resolves
\* or rejects, KEY_STATUS.put resolves or rejects.
SpecBodiesFair ==
  /\ SpecBodies
  /\ WF_vars((\E outcome \in Outcomes : Attempt(outcome)) /\ UNCHANGED <<streamVars, convVars, optVars, rendVars>>)
  /\ WF_vars(PutSettles(TRUE) /\ UNCHANGED <<streamVars, convVars, optVars, rendVars>>)

\* One instance within one day, with a KV store that may throw on any call.
NextFaults ==
  \/ \E inst \in OneInstance, stream \in BOOLEAN :
       FetchMessages(inst, stream, "none") /\ UNCHANGED <<streamVars, convVars, optVars, rendVars>>
  \/ \E outcome \in Outcomes : Attempt(outcome) /\ UNCHANGED <<streamVars, convVars, optVars, rendVars>>
  \/ \E ok \in BOOLEAN : PutSettles(ok) /\ UNCHANGED <<streamVars, convVars, optVars, rendVars>>
  \/ \E inst \in OneInstance : FetchHealth(inst) /\ UNCHANGED <<streamVars, convVars, optVars, rendVars>>
  \/ \E ok \in BOOLEAN : StatusGet(ok) /\ UNCHANGED <<streamVars, convVars, optVars, rendVars>>

SpecFaults == Init /\ [][NextFaults]_vars

\* Two instances that share KEY_STATUS and nothing else: two credentials,
\* single-shot requests, an upstream that answers or reports exhaustion.
SharedOutcomes == {"ok", "credit"}

InitShared == Init /\ keys = <<K1, K2>>

NextShared ==
  \/ \E inst \in Instances :
       FetchMessages(inst, FALSE, "none") /\ UNCHANGED <<streamVars, convVars, optVars, rendVars>>
  \/ \E outcome \in SharedOutcomes : Attempt(outcome) /\ UNCHANGED <<streamVars, convVars, optVars, rendVars>>
  \/ PutSettles(TRUE) /\ UNCHANGED <<streamVars, convVars, optVars, rendVars>>
  \/ \E inst \in Instances : FetchHealth(inst) /\ UNCHANGED <<streamVars, convVars, optVars, rendVars>>
  \/ StatusGet(TRUE) /\ UNCHANGED <<streamVars, convVars, optVars, rendVars>>
  \/ StatusDelete(TRUE) /\ UNCHANGED <<streamVars, convVars, optVars, rendVars>>
  \/ TickUpTo(MaxSharedTicks) /\ UNCHANGED <<streamVars, convVars, optVars, rendVars>>

SpecShared == InitShared /\ [][NextShared]_vars

\* A deployment configured with the credentials "Aa", "BB" and "k1", served by
\* one instance: single-shot requests and status queries.
DigestConfigs == {<<KAa, KBB, K1>>}
InitDigests == InitKeysIn(DigestConfigs) /\ InitStream /\ InitConv /\ InitOptions /\ InitStreaming

NextDigests ==
  \/ \E inst \in OneInstance :
       FetchMessages(inst, FALSE, "none") /\ UNCHANGED <<streamVars, convVars, optVars, rendVars>>
  \/ \E outcome \in SharedOutcomes : Attempt(outcome) /\ UNCHANGED <<streamVars, convVars, optVars, rendVars>>
  \/ PutSettles(TRUE) /\ UNCHANGED <<streamVars, convVars, optVars, rendVars>>
  \/ \E inst \in OneInstance : FetchHealth(inst) /\ UNCHANGED <<streamVars, convVars, optVars, rendVars>>
  \/ StatusGet(TRUE) /\ UNCHANGED <<streamVars, convVars, optVars, rendVars>>
  \/ StatusDelete(TRUE) /\ UNCHANGED <<streamVars, convVars, optVars, rendVars>>
  \/ TickUpTo(MaxSharedTicks) /\ UNCHANGED <<streamVars, convVars, optVars, rendVars>>

SpecDigests == InitDigests /\ [][NextDigests]_vars

\* One KeyManager object, its methods called in any order.
NextManager ==
  \/ MgrGetKeysToTry /\ UNCHANGED <<streamVars, convVars, optVars, rendVars>>
  \/ MgrGetNextKey /\ UNCHANGED <<streamVars, convVars, optVars, rendVars>>
  \/ \E apiKey \in AllKeys : MgrDisableKey(apiKey, TRUE) /\ UNCHANGED <<streamVars, convVars, optVars, rendVars>>

SpecManager == Init /\ [][NextManager]_vars

\* One streamed response.
NextStream ==
  \/ StreamOpen /\ UNCHANGED <<keyVars, convVars, optVars, rendVars>>
  \/ \E part \in Parts : OnPart(part) /\ UNCHANGED <<keyVars, convVars, optVars, rendVars>>
  \/ StreamEnds /\ UNCHANGED <<keyVars, convVars, optVars, rendVars>>
  \/ \E message \in Thrown : StreamThrows(message) /\ UNCHANGED <<keyVars, convVars, optVars, rendVars>>

SpecStream == Init /\ [][NextStream]_vars

\* One streamed response whose client may cancel it.
NextCancel ==
  \/ NextStream
  \/ StreamCancel /\ UNCHANGED <<keyVars, convVars, optVars, rendVars>>
  \/ \E part \in Parts : OnPartCancelled(part) /\ UNCHANGED <<keyVars, convVars, optVars, rendVars>>
  \/ EndsCancelled /\ UNCHANGED <<keyVars, convVars, optVars, rendVars>>

SpecCancel == Init /\ [][NextCancel]_vars

\* One single-shot request through the format converters: its messages
\* converted, then the upstream's result rendered.
NextConvert ==
  \/ \E msg \in AnthropicMessages : ConvertNext(msg) /\ UNCHANGED <<keyVars, streamVars, optVars, rendVars>>
  \/ ConvertReturns /\ UNCHANGED <<keyVars, streamVars, optVars, rendVars>>
  \/ \E r \in GenerateResults : Render(r) /\ UNCHANGED <<keyVars, streamVars, optVars, rendVars>>

SpecConvert == Init /\ [][NextConvert]_vars

\* One request's options built by handleMessages.
NextOptions ==
  \E b \in Bodies : BuildOptions(b) /\ UNCHANGED <<keyVars, streamVars, convVars, rendVars>>

SpecOptions == Init /\ [][NextOptions]_vars

\* One streamed response of src/index.ts.
NextStreaming ==
  \/ StreamingOpen /\ UNCHANGED <<keyVars, streamVars, convVars, optVars>>
  \/ \E e \in Chunks : OnEvent(e) /\ UNCHANGED <<keyVars, streamVars, convVars, optVars>>
  \/ StreamingEnds /\ UNCHANGED <<keyVars, streamVars, convVars, optVars>>
  \/ \E message \in Thrown : StreamingThrows(message) /\ UNCHANGED <<keyVars, streamVars, convVars, optVars>>

SpecStreaming == Init /\ [][NextStreaming]_vars

\* ================================================================== claims
\* ------------------------------------------------------------------ stream framing
\* A sweep over the events sent so far.  `open` is the index of the block that
\* is open (-1: none), `next` the least index a new block may take.
RECURSIVE Framed(_, _, _, _)
Framed(evs, i, open, next) ==
  IF i > Len(evs) THEN [ok |-> TRUE, open |-> open, blocks |-> next]
  ELSE LET e == evs[i]
       IN IF e.event = "content_block_start"
            THEN IF open = -1 /\ e.index >= next /\ (next = 0 => e.index = 0)
                   THEN Framed(evs, i + 1, e.index, e.index + 1)
                   ELSE [ok |-> FALSE, open |-> open, blocks |-> next]
          ELSE IF e.event = "content_block_stop"
            THEN IF open = e.index
                   THEN Framed(evs, i + 1, -1, next)
                   ELSE [ok |-> FALSE, open |-> open, blocks |-> next]
          ELSE Framed(evs, i + 1, open, next)

CountEvents(evs, event) == Cardinality({i \in 1..Len(evs) : evs[i].event = event})

\* C1: for any sequence of upstream parts, the content_block_start events carry
\* strictly increasing indices starting at 0, a block is opened only while no
\* other block is open, a content_block_stop closes the block that is open, and
\* once the stream is closed every opened block has been closed.
C1_BlocksWellFramed ==
  LET f == Framed(out, 1, -1, 0)
  IN f.ok /\ (spc = "closed" => f.open = -1)

\* C2: a stream that ends after zero reasoning, text-delta and tool-call parts,
\* however it ends, has rendered exactly one content block: one
\* content_block_start, with a delta and one content_block_stop.
C2_NeverZeroBlocks ==
  (spc = "closed" /\ contentParts = 0) =>
    /\ CountEvents(out, "content_block_start") = 1
    /\ CountEvents(out, "content_block_delta") = 1
    /\ CountEvents(out, "content_block_stop") = 1

\* ------------------------------------------------------------------ failover

\* The step is a settled upstream attempt of the request in flight.
AttemptStep == req.pc = "attempt" /\ req'.log # req.log

\* The step is a status query answering for one key after its KV read.
StatusGetStep == hq.pc = "get" /\ hq' # hq

\* The step is a status query's KV delete settling.
StatusDeleteStep == hq.pc = "delete" /\ hq' # hq

\* The step starts a /v1/messages request.
FetchMessagesStep == req.pc \in {"idle", "done"} /\ req' # req

\* The request answered last is the scenario of C3: two credentials, the
\* single-shot call with the first fails with a quota error, the call with the
\* second succeeds.
FailoverScenario(r) ==
  /\ Len(keys) = 2
  /\ r.pc = "done"
  /\ ~r.stream
  /\ Len(r.log) = 2
  /\ r.log[1].outcome # "ok"
  /\ isQuotaError(r.log[1].outcome)
  /\ r.log[2].outcome = "ok"

SameMonth(t, u) ==
  getUTCFullYear(t) = getUTCFullYear(u) /\ getUTCMonth(t) = getUTCMonth(u)

\* C3: with credentials A and B, when the call with A fails with a quota error
\* and the call with B succeeds, the caller receives B's response, and a status
\* query that reads after the request was answered (within the month of the
\* disablement) reports A disabled and B available.
C3_FailoverThenStatus ==
  [][ /\ FailoverScenario(req') =>
           /\ req'.log[1].key # req'.log[2].key
           /\ req'.resp = MessageResponse(req'.log[2].key)
      /\ (StatusGetStep /\ FailoverScenario(req) /\ SameMonth(req.time, now)) =>
           /\ Len(hq'.reported) = Len(hq.reported) + 1
           /\ keys[hq.k] = req.log[1].key =>
                Last(hq'.reported) = TRUE /\ hq'.disabled = hq.disabled + 1
           /\ keys[hq.k] = req.log[2].key =>
                Last(hq'.reported) = FALSE /\ hq'.disabled = hq.disabled
           /\ hq'.pc = "done" => hq'.available = Len(keys) - hq'.disabled
    ]_vars

C3_Witness ==
  /\ FailoverScenario(req)
  /\ req.log[1].outcome = "credit"
  /\ hq.pc = "done"
  /\ hq.at >= req.time
  /\ hq.reported = <<TRUE, FALSE>>
  /\ hq.disabled = 1
  /\ hq.available = 1

\* Every candidate of the request was attempted and its call failed with a
\* quota error (a streamed call does not fail: it hands back its stream).
AllExhausted(r) ==
  /\ r.pc = "done"
  /\ ~r.stream
  /\ r.keysToTry # <<>>
  /\ Len(r.log) = Len(r.keysToTry)
  /\ \A j \in 1..Len(r.log) : r.log[j].outcome # "ok" /\ isQuotaError(r.log[j].outcome)

\* C4: when every candidate fails with a quota error the answer is HTTP 429,
\* error.type quota_exhausted, the message of the last failure when it has
\* one, and a nextReset instant strictly after the time of the request.
C4_AllExhausted429 ==
  AllExhausted(req) =>
    /\ req.resp.status = 429
    /\ req.resp.type = "quota_exhausted"
    /\ ErrMessage(Last(req.log).outcome) # <<>> =>
         req.resp.message = ErrMessage(Last(req.log).outcome)
    /\ req.resp.nextReset > req.time

C4_Witness ==
  /\ AllExhausted(req)
  /\ Len(req.log) = 2
  /\ req.log[1].outcome = "billing"
  /\ req.log[2].outcome = "credit"
  /\ req.resp.message = ErrMessage("credit")
  /\ getUTCDate(req.time) = ResetDay

\* C5: when the call with a candidate fails with an error that is not a quota
\* error, the request is answered at once with a status-500 error envelope: no
\* later candidate is attempted, the disabled set and the KV store are left as
\* they were.
C5_OtherFailureSurfaces ==
  [][ (AttemptStep /\ ~req.stream /\ Last(req'.log).outcome # "ok"
         /\ ~isQuotaError(Last(req'.log).outcome)) =>
        /\ req'.pc = "done"
        /\ Len(req'.log) = req.i
        /\ req'.resp.status = 500
        /\ req'.resp.type = "api_error"
        /\ req'.resp.message = ErrMessage(Last(req'.log).outcome)
        /\ cache' = cache
        /\ getKVKey(Last(req'.log).key) \notin cache'[req.inst]
        /\ kv' = kv
    ]_vars

C5_Witness ==
  /\ req.pc = "done"
  /\ ~req.stream
  /\ req.resp.status = 500
  /\ Len(req.log) = 1
  /\ Len(req.keysToTry) = 2
  /\ req.log[1].outcome = "model"

\* C6: for every request, streamed or single-shot, a quota failure the upstream
\* reports for a candidate disables that credential and moves on to the next
\* candidate; the caller sees the exhaustion only when every candidate failed
\* that way.
C6_QuotaAlwaysRotates ==
  req.pc = "done" =>
    \A j \in 1..Len(req.log) :
      (req.log[j].outcome # "ok" /\ isQuotaError(req.log[j].outcome)) =>
        /\ getKVKey(req.log[j].key) \in cache[req.inst]
        /\ j < Len(req.keysToTry) => Len(req.log) > j

\* ------------------------------------------------------------------ rotation
\* calls[from .. from + n - 1] are getKeysToTry calls made with nothing disabled.
CleanWindow(from, n) ==
  \A j \in from..(from + n - 1) :
    calls[j].op = "getKeysToTry" /\ calls[j].disabled = {}

\* C7: with 3 credentials and nothing disabled, over 6 consecutive getKeysToTry
\* calls on one KeyManager each credential is the first entry of exactly two
\* calls, and each call's first entry differs from that of the call before.
C7_SixCallsVisitEachTwice ==
  Len(keys) = 3 =>
    \A from \in 1..(Len(calls) - 5) :
      CleanWindow(from, 6) =>
        /\ \A key \in Range(keys) :
             Cardinality({j \in from..(from + 5) : calls[j].result[1] = key}) = 2
        /\ \A j \in (from + 1)..(from + 5) : calls[j].result[1] # calls[j - 1].result[1]

C7_Witness ==
  /\ Len(keys) = 3
  /\ Len(calls) >= 6
  /\ CleanWindow(1, 6)
  /\ calls[1].result[1] = K1
  /\ calls[6].result[1] = K3

\* C8: within one worker instance each /v1/messages request starts with the
\* credential after the one the previous request started with.
C8_RequestsRoundRobin ==
  (req.pc # "idle" /\ prevStart # -1) =>
    req.startIndex = (prevStart + 1) % Len(keys)

\* ------------------------------------------------------------------ monthly reset
\* The record a read at t finds under kvKey, when the store has one there that
\* has not passed its expiry.
HasRecord(store, kvKey, t) == store[kvKey] # NoRecord /\ t < store[kvKey].expires
HasNoRecord(store, kvKey, t) == store[kvKey] = NoRecord \/ t > store[kvKey].expires

C10_ResetKeyUsedAgain ==
  [][ FetchMessagesStep =>
        \A key \in Range(keys) :
          getKVKey(key) \in resetSeen => key \in Range(req'.keysToTry)
    ]_vars

\* ------------------------------------------------------------------ empty candidate list
\* Every configured credential is in the instance's disabled set.
AllKnownDisabled(inst) == \A key \in Range(keys) : isKeyKnownDisabled(cache[inst], key)

\* C11: a request that arrives while every configured credential is in the
\* local disabled set is answered at once with HTTP 429, error.type
\* quota_exhausted and a nextReset after the time of the request: no upstream
\* call is made and the remote store is left untouched.
C11_EmptyListFailsFast ==
  [][ (FetchMessagesStep /\ AllKnownDisabled(req'.inst)) =>
        /\ req'.keysToTry = <<>>
        /\ req'.pc = "done"
        /\ req'.resp.status = 429
        /\ req'.resp.type = "quota_exhausted"
        /\ req'.resp.nextReset > now
        /\ req'.log = <<>>
        /\ req'.pending = NoRecord
        /\ kv' = kv
    ]_vars

C11_Witness ==
  /\ AllKnownDisabled(req.inst)
  /\ req.pc = "done"
  /\ req.keysToTry = <<>>
  /\ req.log = <<>>
  /\ req.resp.status = 429
  /\ req.resp.nextReset > req.time

\* ------------------------------------------------------------------ stream start
\* C12: in every rendered stream message_start is the first event, appears
\* exactly once, is sent before any upstream part is taken, and carries an
\* empty content list and zero input and output usage.
C12_MessageStartFirstOnce ==
  /\ spc = "new" => out = <<>> /\ consumed = 0
  /\ spc # "new" =>
       /\ Len(out) >= 1
       /\ out[1].event = "message_start"
       /\ out[1].content = <<>>
       /\ out[1].inputTokens = 0
       /\ out[1].tokens = 0
       /\ CountEvents(out, "message_start") = 1

C12_Witness ==
  /\ spc = "closed"
  /\ contentParts >= 2
  /\ Len(out) >= 5
  /\ out[1] = MessageStart
  /\ CountEvents(out, "message_start") = 1

\* ------------------------------------------------------------------ stream completion
BlockEvents == {"content_block_start", "content_block_delta", "content_block_stop"}

\* Every index that evs[1..upto] opens is closed later within evs[1..upto].
OpenedAreStopped(evs, upto) ==
  \A i \in 1..upto :
    evs[i].event = "content_block_start" =>
      \E j \in (i + 1)..upto :
        evs[j].event = "content_block_stop" /\ evs[j].index = evs[i].index

\* The upstream stream completed with a finish part: it was the last part
\* taken and the only finish, and the iteration then ended without throwing.
CompletedWithFinish ==
  /\ spc = "closed"
  /\ lastPart.type = "finish"
  /\ CountEvents(out, "message_delta") = 1
  /\ Last(out).event = "message_stop"

C14_FailureStillTerminates ==
  (spc = "closed" /\ (streamError \/ CountEvents(out, "error") >= 1)) =>
    /\ CountEvents(out, "error") >= 1
    /\ OpenedAreStopped(out, Len(out))
    /\ Len(out) >= 3
    /\ out[Len(out) - 1].event = "message_delta"
    /\ Last(out).event = "message_stop"

\* ------------------------------------------------------------------ required fields
\* C15: a POST /v1/messages whose body lacks model, messages or max_tokens is
\* answered at once with HTTP 400 and an invalid_request_error envelope: no
\* upstream call is attempted, and the credential cursor, the local disabled
\* set and the remote store are left as they were.
C15_MissingFieldIs400 ==
  [][ (FetchMessagesStep /\ req'.missing # "none") =>
        /\ req'.pc = "done"
        /\ req'.resp.status = 400
        /\ req'.resp.type = "invalid_request_error"
        /\ req'.log = <<>>
        /\ currentIndex' = currentIndex
        /\ cache' = cache
        /\ kv' = kv
    ]_vars

\* ------------------------------------------------------------------ single-shot rendering
HasReasoning(r) == r.reasoning # <<>> \/ r.reasoningText # <<>>

\* C16: the single-shot response lists a thinking block first when the
\* upstream reports reasoning text, then a text block when the text is not
\* empty, then one tool_use block per tool call in the reported order; a result
\* with only text and a natural stop gives stop_reason end_turn, exactly one
\* text block, and the upstream's input and output token counts.
C16_ContentOrder ==
  cpc = "rendered" =>
    LET r == generated
        content == response.content
        nThinking == IF HasReasoning(r) THEN 1 ELSE 0
        nText == IF r.text # <<>> THEN 1 ELSE 0
    IN /\ Len(content) = nThinking + nText + Len(r.toolCalls)
       /\ HasReasoning(r) =>
            /\ content[1].type = "thinking"
            /\ content[1].text # <<>>
            /\ content[1].text \in {r.reasoning, r.reasoningText}
       /\ r.text # <<>> =>
            content[nThinking + 1] = ResponseBlock("text", r.text, "", "")
       /\ \A i \in 1..Len(r.toolCalls) :
            content[nThinking + nText + i] =
              ResponseBlock("tool_use", <<>>, r.toolCalls[i].toolCallId, r.toolCalls[i].toolName)
       /\ (~HasReasoning(r) /\ r.text # <<>> /\ r.toolCalls = <<>> /\ r.finishReason = "stop") =>
            /\ response.stop_reason = "end_turn"
            /\ content = <<ResponseBlock("text", r.text, "", "")>>
            /\ r.usage.present =>
                 /\ response.usage.input_tokens = r.usage.promptTokens
                 /\ response.usage.output_tokens = r.usage.completionTokens

C16_Witness ==
  /\ cpc = "rendered"
  /\ generated.reasoning = TxtHi
  /\ generated.text = TxtHi
  /\ Len(generated.toolCalls) = 2
  /\ Len(response.content) = 4
  /\ response.content[1].type = "thinking"
  /\ response.content[2].type = "text"
  /\ response.content[3].id = "t2"
  /\ response.content[4].id = "t1"

\* ------------------------------------------------------------------ outbound conversion
\* C17: every message whose content is a plain string is converted to a
\* message of the same role with that string as its content, at the same
\* position in the list.
C17_StringMessageSamePosition ==
  \A i \in 1..Len(messages) :
    messages[i].content.kind = "string" =>
      /\ Len(result) >= i
      /\ result[i] = CoreMessage(messages[i].role, CoreString(messages[i].content.text))

\* The message is converted to a message, not left out.
IsKept(msg) == ConvertMessage(msg, <<>>) # <<>>

\* Where messages[i], when kept, stands in result.
ResultIndex(i) == Cardinality({j \in 1..i : IsKept(messages[j])})

\* Where the part of blocks[b] stands among the parts of its message.
PartIndex(blocks, b) == Len(ConvertBlocks(SubSeq(blocks, 1, b)))

\* The serialization of [{type: "text", text: 'a"'}, {type: "text", text: "hi"}].
NestedExample == BlocksValue(<<NestedText(TxtQuote), NestedText(TxtHi)>>)
NestedExampleJSON ==
  << "[", "{", "\"", "t", "y", "p", "e", "\"", ":", "\"", "t", "e", "x", "t", "\"", ",",
     "\"", "t", "e", "x", "t", "\"", ":", "\"", "a", "\\", "\"", "\"", "}", ",", "{", "\"",
     "t", "y", "p", "e", "\"", ":", "\"", "t", "e", "x", "t", "\"", ",", "\"", "t", "e",
     "x", "t", "\"", ":", "\"", "h", "i", "\"", "}", "]" >>

\* C18: the payload of the tool-result part converted from a tool_result
\* block is the block's content itself when that is a string, and the JSON
\* serialization of the content when it is a list of nested blocks.
C18_ToolResultPayload ==
  \A i \in 1..Len(messages) :
    messages[i].content.kind = "blocks" =>
      LET blocks == messages[i].content.blocks
      IN \A b \in 1..Len(blocks) :
           blocks[b].type = "tool_result" =>
             /\ IsKept(messages[i])
             /\ Len(result) >= ResultIndex(i)
             /\ result[ResultIndex(i)].content.kind = "parts"
             /\ LET part == result[ResultIndex(i)].content.parts[PartIndex(blocks, b)]
                    content == blocks[b].content
                IN /\ part.type = "tool-result"
                   /\ part.toolCallId = blocks[b].id
                   /\ content.kind = "string" => part.result = content
                   /\ content.kind = "blocks" => part.result = JSONStringify(content)
                   /\ content = NestedExample => part.result = StringValue(NestedExampleJSON)

C18_Witness ==
  /\ Len(messages) = 2
  /\ Len(result) = 2
  /\ messages[1].content = BlocksValue(<<ToolResultBlock("t1", StringValue(TxtQuote))>>)
  /\ messages[2].content = BlocksValue(<<ToolResultBlock("t1", NestedExample)>>)
  /\ result[1].content.parts[1].result = StringValue(TxtQuote)
  /\ result[2].content.parts[1].result = StringValue(NestedExampleJSON)

\* ------------------------------------------------------------------ round trip
\* messages[i] is a single text block with no cache hint.
IsLoneText(i) ==
  /\ messages[i].content.kind = "blocks"
  /\ Len(messages[i].content.blocks) = 1
  /\ messages[i].content.blocks[1].type = "text"
  /\ ~messages[i].content.blocks[1].cache_control

\* The upstream answered with exactly this text.
EchoesText(text) ==
  /\ cpc = "rendered"
  /\ generated.text = text
  /\ ~HasReasoning(generated)
  /\ generated.toolCalls = <<>>

\* C19, as stated: a message that is a single text block with no cache hint is
\* converted to the plain-string form, and that text rendered back by the
\* inbound conversion is a single text block with the same text.
C19_RoundTripAnyText ==
  \A i \in 1..Len(messages) :
    IsLoneText(i) =>
      LET text == messages[i].content.blocks[1].text
      IN /\ Len(result) >= ResultIndex(i)
         /\ result[ResultIndex(i)] = CoreMessage(messages[i].role, CoreString(text))
         /\ EchoesText(text) => response.content = <<ResponseBlock("text", text, "", "")>>

\* C19, amended: the round trip holds for a single text block with no cache
\* hint whose text is not empty.
C19_RoundTripNonEmptyText ==
  \A i \in 1..Len(messages) :
    (IsLoneText(i) /\ messages[i].content.blocks[1].text # <<>>) =>
      LET text == messages[i].content.blocks[1].text
      IN /\ Len(result) >= ResultIndex(i)
         /\ result[ResultIndex(i)] = CoreMessage(messages[i].role, CoreString(text))
         /\ EchoesText(text) => response.content = <<ResponseBlock("text", text, "", "")>>

C19_Witness ==
  /\ Len(messages) = 1
  /\ IsLoneText(1)
  /\ result = <<CoreMessage(messages[1].role, CoreString(TxtHi))>>
  /\ EchoesText(TxtHi)
  /\ response.content = <<ResponseBlock("text", TxtHi, "", "")>>

\* ------------------------------------------------------------------ candidate list
\* The step is a getKeysToTry call on the KeyManager object.
GetKeysToTryStep ==
  Len(calls') = Len(calls) + 1 /\ Last(calls').op = "getKeysToTry"

\* Where key stands in the rotation that starts at cursor index.
RotationRank(key, index) ==
  CHOOSE i \in 0..(Len(keys) - 1) : keys[((index + i) % Len(keys)) + 1] = key

\* C20: getKeysToTry returns the configured credentials in rotation order
\* from the cursor, leaving out exactly those whose digest is in the local
\* disabled set at the time of the call, and advances the cursor by one
\* position modulo the number of credentials, however many it left out.
C20_CandidateListRule ==
  [][ GetKeysToTryStep =>
        LET list == Last(calls').result
        IN /\ Range(list) = {key \in Range(keys) : getKVKey(key) \notin cache["X"]}
           /\ Cardinality(Range(list)) = Len(list)
           /\ \A a, b \in 1..Len(list) :
                a < b => RotationRank(list[a], currentIndex) < RotationRank(list[b], currentIndex)
           /\ currentIndex' = (currentIndex + 1) % Len(keys)
           /\ cache' = cache
    ]_vars

C20_Witness ==
  /\ Len(keys) = 3
  /\ \E j \in 1..Len(calls) :
       /\ calls[j].op = "getKeysToTry"
       /\ calls[j].disabled = {getKVKey(K2)}
       /\ calls[j].result = <<K3, K1>>
  /\ Last(calls).op = "getKeysToTry"
  /\ Last(calls).result = <<>>

\* ------------------------------------------------------------------ rotation fairness
\* calls[from .. from + n - 1] are getKeysToTry calls all made under the local
\* disabled set `disabled`.
SteadyWindow(from, n, disabled) ==
  \A j \in from..(from + n - 1) :
    calls[j].op = "getKeysToTry" /\ calls[j].disabled = disabled

\* How many of calls[from .. from + n - 1] returned a list that starts with key.
FirstCount(from, n, key) ==
  Cardinality({j \in from..(from + n - 1) :
                 calls[j].result # <<>> /\ calls[j].result[1] = key})

\* C21: over one cursor cycle of getKeysToTry calls (as many consecutive calls
\* as there are credentials) made under one disabled set, any two credentials
\* that are not disabled are the first entry of the returned list equally
\* often.
C21_RotationFair ==
  \A from \in 1..(Len(calls) - Len(keys) + 1) :
    SteadyWindow(from, Len(keys), calls[from].disabled) =>
      \A a, b \in Range(keys) :
        (getKVKey(a) \notin calls[from].disabled /\ getKVKey(b) \notin calls[from].disabled) =>
          FirstCount(from, Len(keys), a) = FirstCount(from, Len(keys), b)

\* ------------------------------------------------------------------ disable operation
\* The step is the settling of the KEY_STATUS.put that disableKey awaits.
PutStep == req.pc = "put" /\ req' # req

\* C22: disableKey has put the credential's digest in the instance's disabled
\* set before KEY_STATUS.put is called; when the put throws nothing is raised,
\* the store and the disabled set stay as they are, and the loop goes on to
\* the next candidate (or to the closing 429) as it does after a put that
\* succeeded.
C22_DisableSurvivesPutFailure ==
  [][ /\ (AttemptStep /\ req'.pc = "put") =>
           /\ getKVKey(req.keysToTry[req.i]) \in cache'[req.inst]
           /\ req'.kvCalls = req.kvCalls
           /\ kv' = kv
      /\ PutStep =>
           /\ Len(req'.kvCalls) = Len(req.kvCalls) + 1
           /\ Last(req'.kvCalls).op = "put"
           /\ ~Last(req'.kvCalls).ok => kv' = kv
           /\ cache' = cache
           /\ getKVKey(req.keysToTry[req.i]) \in cache[req.inst]
           /\ req'.log = req.log
           /\ req'.lastError = req.lastError
           /\ IF req.i < Len(req.keysToTry)
                THEN req'.pc = "attempt" /\ req'.i = req.i + 1 /\ req'.resp = NoResponse
                ELSE req'.pc = "done" /\ req'.resp.status = 429
    ]_vars

C22_Witness ==
  /\ req.pc = "attempt"
  /\ req.i = 2
  /\ Len(req.kvCalls) = 1
  /\ ~req.kvCalls[1].ok
  /\ kv[getKVKey(req.keysToTry[1])] = NoRecord
  /\ getKVKey(req.keysToTry[1]) \in cache[req.inst]

\* ------------------------------------------------------------------ expiry and reset
\* The reset rule of isKeyDisabledInKV applies to record on day t.
ResetApplies(record, t) ==
  shouldResetKeys(t).shouldReset /\ record.lastResetMonth # shouldResetKeys(t).currentMonth

\* The first day after its disablement on which the reset rule applies to record.
FirstResetDay(record) ==
  CHOOSE t \in (record.disabledAt + 1)..(record.disabledAt + 2 * 31) :
    /\ ResetApplies(record, t)
    /\ \A u \in (record.disabledAt + 1)..(t - 1) : ~ResetApplies(record, u)

\* C23: every record of the store is still there on the first day on which
\* the reset rule applies to it: a read on that day finds it.
C23_ExpiryOutlivesResetGap ==
  \A kvKey \in KVKeys :
    kv[kvKey] # NoRecord =>
      KVRead(kv, kvKey, FirstResetDay(kv[kvKey])) = {kv[kvKey]}

\* ------------------------------------------------------------------ announced reset
\* C24: a status query made on or after the nextReset that the quota envelope
\* announced on the day a credential was disabled reports that credential
\* available: its read finds no record, or it deletes the record it finds.
C24_AnnouncedResetIsHonoured ==
  [][ LET kvKey == getKVKey(keys[hq.k])
      IN (/\ StatusGetStep
          /\ kv[kvKey] # NoRecord
          /\ now >= getNextResetDate(kv[kvKey].disabledAt)) =>
           \/ hq'.pc = "delete"
           \/ /\ Len(hq'.reported) = hq.k
              /\ Last(hq'.reported) = FALSE
    ]_vars

\* ------------------------------------------------------------------ remote store traffic
\* The failures the upstream can report that are exhaustion: the message
\* "Insufficient credit" and the error type "billing".
ExhaustionFailures == {"credit", "billing"}

\* C25: a /v1/messages request calls KEY_STATUS only to put, once for each
\* single-shot attempt that failed with an exhaustion failure, under the
\* digest of the credential of that attempt; it calls neither get nor delete.
\* The get and delete calls are those of the status query.
C25_RequestOnlyWritesOnExhaustion ==
  LET exhausted == {j \in 1..Len(req.log) :
                      ~req.stream /\ req.log[j].outcome \in ExhaustionFailures}
      awaited == IF req.pc = "put" THEN 1 ELSE 0
  IN /\ \A n \in 1..Len(req.kvCalls) :
          /\ req.kvCalls[n].op = "put"
          /\ n \in exhausted
          /\ req.kvCalls[n].kvKey = getKVKey(req.log[n].key)
     /\ Len(req.kvCalls) + awaited = Cardinality(exhausted)
     /\ \A n \in 1..Len(hq.kvCalls) : hq.kvCalls[n].op \in {"get", "delete"}

C25_Witness ==
  /\ req.pc = "done"
  /\ Len(req.log) = 3
  /\ req.log[3].outcome = "ok"
  /\ Len(req.kvCalls) = 2
  /\ hq.pc = "done"
  /\ \E n \in 1..Len(hq.kvCalls) : hq.kvCalls[n].op = "delete"

\* ------------------------------------------------------------------ two instances
\* C26: a disable operation in one instance adds the digest to that
\* instance's disabled set and writes the record, and leaves the other
\* instance's set as it is.  An instance's set changes only by its own
\* failed attempt or by its own status query reading a record, and an
\* instance's candidate list holds every credential not in its own set.
C26_DisableIsLocalToInstance ==
  [][ /\ (AttemptStep /\ req'.pc = "put") =>
           /\ cache'[req.inst] = cache[req.inst] \cup {getKVKey(req.keysToTry[req.i])}
           /\ \A other \in Instances \ {req.inst} : cache'[other] = cache[other]
      /\ PutStep =>
           /\ kv'[getKVKey(req.keysToTry[req.i])] # NoRecord
           /\ cache' = cache
      /\ \A inst \in Instances :
           cache'[inst] # cache[inst] =>
             \/ /\ AttemptStep
                /\ req.inst = inst
                /\ Last(req'.log).outcome \in ExhaustionFailures
                /\ cache'[inst] = cache[inst] \cup {getKVKey(req.keysToTry[req.i])}
             \/ /\ StatusGetStep
                /\ hq.inst = inst
                /\ hq'.seen # NoRecord
                /\ cache'[inst] = cache[inst] \cup {getKVKey(keys[hq.k])}
      /\ FetchMessagesStep =>
           \A key \in Range(keys) :
             getKVKey(key) \notin cache[req'.inst] => key \in Range(req'.keysToTry)
    ]_vars

C26_Witness ==
  /\ cache["X"] = {getKVKey(K1)}
  /\ HasRecord(kv, getKVKey(K1), now)
  /\ cache["Y"] = {}
  /\ req.inst = "Y"
  /\ req.pc = "attempt"
  /\ req.keysToTry = <<K1, K2>>
  /\ req.i = 1

\* ------------------------------------------------------------------ reset against disable
\* C27: the delete of a status query removes only the record the query read:
\* when a disable operation has written a newer record under the same key
\* since the read, the delete leaves that record in the store.
C27_FreshRecordSurvivesReset ==
  [][ LET kvKey == getKVKey(keys[hq.k])
      IN (StatusDeleteStep /\ kv[kvKey] # hq.seen) => kv'[kvKey] = kv[kvKey]
    ]_vars

\* ------------------------------------------------------------------ dispatcher loop
\* What the retry loop has done for request r: attempts made in list order,
\* each entry at most once, a further attempt only after an exhaustion
\* failure, the closing 429 only after the whole list, an answer exactly when
\* the loop is over.
Dispatched(r) ==
  /\ Len(r.log) <= Len(r.keysToTry)
  /\ Cardinality(Range(r.keysToTry)) = Len(r.keysToTry)
  /\ \A j \in 1..Len(r.log) : r.log[j].key = r.keysToTry[j]
  /\ \A j \in 1..(Len(r.log) - 1) : ~r.stream /\ r.log[j].outcome \in ExhaustionFailures
  /\ r.pc = "attempt" => r.i = Len(r.log) + 1
  /\ r.pc = "put" => r.i = Len(r.log) /\ Last(r.log).outcome \in ExhaustionFailures
  /\ (r.pc = "done") <=> (r.resp # NoResponse)
  /\ (r.pc = "done" /\ r.resp.status = 429) =>
       /\ Len(r.log) = Len(r.keysToTry)
       /\ \A j \in 1..Len(r.log) : r.log[j].outcome \in ExhaustionFailures

\* C28: for one request the loop makes at most one attempt per entry of its
\* candidate list, in list order, stops at the first success or the first
\* failure that is not exhaustion, answers once, and every request that
\* entered the loop is answered.
C28_DispatcherTerminates ==
  /\ []Dispatched(req)
  /\ [][(req.resp # NoResponse /\ req' # req) => FetchMessagesStep]_vars
  /\ (req.pc = "attempt") ~> (req.pc = "done")

C28_Witness ==
  /\ req.pc = "done"
  /\ Len(req.keysToTry) = 3
  /\ Len(req.log) = 3
  /\ req.resp.status = 429
  /\ Len(req.kvCalls) = 3

\* ------------------------------------------------------------------ failed status read
\* C29: when KEY_STATUS.get throws during a status query, the credential is
\* reported available, the query goes on to the next credential or to its
\* summary, and the disabled sets and the store are left as they were.
C29_FailedReadReportsAvailable ==
  [][ (StatusGetStep /\ Len(hq'.kvCalls) = Len(hq.kvCalls) + 1 /\ ~Last(hq'.kvCalls).ok) =>
        /\ Len(hq'.reported) = hq.k
        /\ Last(hq'.reported) = FALSE
        /\ hq'.disabled = hq.disabled
        /\ IF hq.k < Len(keys)
             THEN hq'.pc = "get" /\ hq'.k = hq.k + 1
             ELSE hq'.pc = "done" /\ hq'.total = Len(keys)
                  /\ hq'.available = Len(keys) - hq.disabled
        /\ cache' = cache
        /\ kv' = kv
    ]_vars

C29_Witness ==
  /\ hq.pc = "done"
  /\ \E n \in 1..Len(hq.kvCalls) :
       /\ ~hq.kvCalls[n].ok
       /\ HasRecord(kv, hq.kvCalls[n].kvKey, now)
       /\ hq.kvCalls[n].kvKey = getKVKey(keys[n])
       /\ hq.reported[n] = FALSE
  /\ hq.available = Len(keys)

\* ------------------------------------------------------------------ next reset date
\* r is the 15th of the month of t when t is before the 15th, and the 15th of
\* the month after it otherwise, January of the next year after December.
NextResetRule(t, r) ==
  /\ getUTCDate(r) = ResetDay
  /\ IF getUTCDate(t) < ResetDay
       THEN SameMonth(r, t)
     ELSE IF getUTCMonth(t) = 11
       THEN getUTCFullYear(r) = getUTCFullYear(t) + 1 /\ getUTCMonth(r) = 0
     ELSE getUTCFullYear(r) = getUTCFullYear(t) /\ getUTCMonth(r) = getUTCMonth(t) + 1

\* C30: the nextReset of a quota envelope and of a status summary is the 15th
\* of the current month when the day of month is before 15 and the 15th of the
\* following month otherwise, December rolling over to January of the next
\* year; and getNextResetDate answers so on every day of two years.
C30_NextResetDate ==
  /\ (req.pc = "done" /\ req.resp.status = 429) =>
       NextResetRule(req.time, req.resp.nextReset)
  /\ hq.pc = "done" => NextResetRule(hq.at, hq.nextReset)
  /\ (req.pc = "idle" /\ hq.pc = "idle") =>
       \A t \in 1..(2 * DaysPerYear) : NextResetRule(t, getNextResetDate(t))

C30_Witness ==
  /\ req.pc = "done"
  /\ req.resp.status = 429
  /\ getUTCMonth(req.time) = 11
  /\ getUTCFullYear(req.resp.nextReset) = getUTCFullYear(req.time) + 1
  /\ getUTCMonth(req.resp.nextReset) = 0
  /\ hq.pc = "done"
  /\ getUTCDate(hq.at) < ResetDay
  /\ hq.nextReset = hq.at + 5

\* ------------------------------------------------------------------ C38
\* The directives of the declared type and what the claim says each becomes.
ClaimedToolChoice(toolChoice) ==
  CASE toolChoice = ChoiceString("auto") -> SdkChoice("auto", "")
    [] toolChoice = ChoiceString("none") -> SdkChoice("none", "")
    [] toolChoice = ChoiceObject("any", "") -> SdkChoice("required", "")
    [] toolChoice.kind = "object" /\ toolChoice.value = "tool" -> SdkChoice("tool", toolChoice.name)
    [] OTHER -> SdkChoice("auto", "")

ToolChoiceConverted == opc = "built" /\ body.hasTools /\ body.tool_choice # NoToolChoice

RECURSIVE ConcatTexts(_)
ConcatTexts(blocks) ==
  IF blocks = <<>> THEN <<>> ELSE Head(blocks).text \o ConcatTexts(Tail(blocks))

HasCacheHint(blocks) == \E i \in 1..Len(blocks) : blocks[i].cache_control

\* C39: a list of system segments without a cache hint becomes one string, the
\* texts concatenated in order; with a cache hint it becomes one entry per segment
\* in order, the hinted ones annotated; a string passes through unchanged.
C39_SystemConversion ==
  opc = "built" =>
    /\ (body.system.kind = "blocks" /\ body.system.blocks # <<>> /\ ~HasCacheHint(body.system.blocks))
         => commonOptions.system = StringValue(ConcatTexts(body.system.blocks))
    /\ (body.system.kind = "blocks" /\ HasCacheHint(body.system.blocks))
         => /\ commonOptions.system.kind = "blocks"
            /\ Len(commonOptions.system.blocks) = Len(body.system.blocks)
            /\ \A i \in 1..Len(body.system.blocks) :
                 commonOptions.system.blocks[i] =
                   SystemPart(body.system.blocks[i].text, body.system.blocks[i].cache_control)
    /\ (body.system.kind = "string" /\ body.system.text # <<>>)
         => commonOptions.system = body.system

\* ------------------------------------------------------------------ C40
\* C40: when thinking is enabled and the request carries a budget, the upstream
\* is given exactly that budget.
C40_BudgetVerbatim ==
  (opc = "built" /\ body.thinking.type = "enabled" /\ body.thinking.budget_tokens # Absent)
    => /\ commonOptions.thinking.enabled
       /\ commonOptions.thinking.budgetTokens = body.thinking.budget_tokens

\* ------------------------------------------------------------------ C35
\* The message_delta the stream sends for the finish part of the upstream
\* outcome that generateText resolved with.
StreamedFor(r) ==
  FinishDelta(r.finishReason, IF r.usage.present THEN r.usage.completionTokens ELSE NoUsage)

\* C35: for one upstream outcome the stream's message_delta carries the stop
\* reason of the single-shot response, and the upstream's output-token count.
C35_StreamMatchesSingleShot ==
  cpc = "rendered" =>
    /\ StreamedFor(generated).kind = response.stop_reason
    /\ StreamedFor(generated).tokens =
         (IF generated.usage.present THEN generated.usage.completionTokens ELSE 0)

\* ------------------------------------------------------------------ C36
\* C36: the single-shot stop reason is tool_use for tool-calls, max_tokens for
\* length, stop_sequence or end_turn for stop, end_turn for anything else.
C36_StopReasonMapping ==
  cpc = "rendered" =>
    CASE generated.finishReason = "tool-calls" -> response.stop_reason = "tool_use"
      [] generated.finishReason = "length" -> response.stop_reason = "max_tokens"
      [] generated.finishReason = "stop" -> response.stop_reason \in {"stop_sequence", "end_turn"}
      [] OTHER -> response.stop_reason = "end_turn"

\* ------------------------------------------------------------------ C33
\* The delta type that belongs to a block type.
DeltaKindOf(blockKind) ==
  CASE blockKind = "thinking" -> "thinking_delta"
    [] blockKind = "text" -> "text_delta"
    [] blockKind = "tool_use" -> "input_json_delta"
    [] OTHER -> "none"

\* The positions before i at which a block of index k was started or stopped.
FramesOf(evs, i, k) ==
  {j \in 1..(i - 1) :
     evs[j].event \in {"content_block_start", "content_block_stop"} /\ evs[j].index = k}

\* The delta at position i goes to the block most recently started under its
\* index, that block is still open, and the delta has the block's type.
DeltaFitsOpenBlock(evs, i) ==
  LET frames == FramesOf(evs, i, evs[i].index)
  IN /\ frames # {}
     /\ LET j == CHOOSE n \in frames : \A m \in frames : m <= n
        IN /\ evs[j].event = "content_block_start"
           /\ evs[i].kind = DeltaKindOf(evs[j].kind)

\* C33: every content_block_delta sent carries the index of a block that is
\* open when it is sent and the delta type of that block.
C33_DeltaFitsOpenBlock ==
  \A i \in 1..Len(out) : out[i].event = "content_block_delta" => DeltaFitsOpenBlock(out, i)

\* ------------------------------------------------------------------ C34
\* C34: whatever the upstream delivers and wherever its iteration throws, the
\* stream carries at most one message_delta and at most one message_stop, and a
\* closed stream that carries message_stop ends with it.
C34_TerminatesOnce ==
  /\ CountEvents(out, "message_delta") <= 1
  /\ CountEvents(out, "message_stop") <= 1
  /\ (spc = "closed" /\ CountEvents(out, "message_stop") >= 1) => Last(out).event = "message_stop"

\* ------------------------------------------------------------------ C37
\* C37: once the client has cancelled the response stream, no further event is
\* produced and no further upstream part is consumed.
C37_CancelStopsStream ==
  [][cancelled => (out' = out /\ consumed' = consumed)]_vars

\* ------------------------------------------------------------------ C31
\* The configured credentials other than apiKey.
OtherKeys(apiKey) == Range(keys) \ {apiKey}

\* C31: when a request disables a credential, every other configured
\* credential stays in the candidate list if it was there, and has a record in
\* the store, the thing a status query reports from, only if it had one.
C31_DisableTouchesOneCredential ==
  [][ /\ (AttemptStep /\ req'.pc = "put") =>
           \A other \in OtherKeys(req.keysToTry[req.i]) :
             other \in Range(getKeysToTry(keys, 0, cache[req.inst]))
               => other \in Range(getKeysToTry(keys, 0, cache'[req.inst]))
      /\ PutStep =>
           \A other \in OtherKeys(req.keysToTry[req.i]) :
             HasRecord(kv', getKVKey(other), now) => HasRecord(kv, getKVKey(other), now)
    ]_vars

\* ------------------------------------------------------------------ C32
\* The events the step enqueues.
NewlySent == SubSeq(sent', Len(sent) + 1, Len(sent'))

\* The positions of the content_block_start events of evs whose block has not
\* been stopped.
OpenStarts(evs) ==
  {j \in 1..Len(evs) :
     /\ evs[j].event = "content_block_start"
     /\ ~\E k \in (j + 1)..Len(evs) :
           evs[k].event = "content_block_stop" /\ evs[k].index = evs[j].index}

StartsIn(evs) == {i \in 1..Len(evs) : evs[i].event = "content_block_start"}

\* The step takes an upstream event of one of the given types.
TakesEvent(types) == rpc = "iterating" /\ taken' = taken + 1 /\ lastEvent'.type \in types

\* The index of the tool_use block most recently started for call id.
AssignedIndex(evs, id) ==
  LET starts == {j \in StartsIn(evs) : evs[j].kind = "tool_use" /\ evs[j].id = id}
  IN evs[CHOOSE j \in starts : \A m \in starts : m <= j].index

\* What C32 says of one step.
ToolCallFramingStep ==
  /\ TakesEvent({"tool-call", "tool-call-streaming-start"}) =>
       /\ Cardinality(StartsIn(NewlySent)) = 1
       /\ LET i == CHOOSE n \in StartsIn(NewlySent) : TRUE
              start == NewlySent[i]
          IN /\ start = ToolUseStart(start.index, lastEvent'.toolCallId, lastEvent'.toolName)
             /\ \A j \in StartsIn(sent) : sent[j].index < start.index
             /\ \A j \in OpenStarts(sent) :
                  sent[j].kind \in {"text", "thinking"}
                    => \E k \in 1..(i - 1) : NewlySent[k] = BlockStop(sent[j].index)
             /\ lastEvent'.type = "tool-call" =>
                  /\ Len(NewlySent) = i + 2
                  /\ NewlySent[i + 1] =
                       BlockDelta(start.index, "input_json_delta", lastEvent'.text)
                  /\ NewlySent[i + 2] = BlockStop(start.index)
  /\ (TakesEvent({"tool-call-delta"}) /\ MapHas(toolCallsMap, lastEvent'.toolCallId)) =>
       NewlySent = <<BlockDelta(AssignedIndex(sent, lastEvent'.toolCallId),
                                "input_json_delta", lastEvent'.text)>>
  /\ StartsIn(NewlySent) # {} =>
       \A j \in OpenStarts(sent) : sent[j].kind # "tool_use"

\* C32: a tool-call event, atomic or incremental, first closes every open text
\* or thinking block and then opens one tool_use block with the call's id and
\* name at an index no block had before; the atomic form follows it with one
\* input_json_delta and the block's stop; each argument delta of the incremental
\* form is sent with the index of its call's block; and no block is opened
\* while a tool_use block is open.
C32_ToolCallFraming == [][ToolCallFramingStep]_vars

====
